---- MODULE Spec2Model ----
(***************************************************************************)
(* Model of the transcription pipeline of transcribe.js: segmentation of   *)
(* oversized utterances (groupSentences, splitLongUtterances), speaker     *)
(* identification and paragraph breaking (src/api/openai.js), and the      *)
(* handleTranscribe run that sequences them and persists the result.       *)
(*                                                                         *)
(* Strings are kept run-length encoded: a string is a sequence of runs     *)
(* [c |-> character, n |-> repetitions] in which adjacent runs differ in   *)
(* their character, so two strings are equal exactly when their encodings  *)
(* are, and the 4000-character threshold of the code keeps its value.      *)
(***************************************************************************)
EXTENDS Integers, Sequences, FiniteSets, TLC

VARIABLES
    pc,              \* control point of the run (handleTranscribe)
    inputUtterances, \* utterances as returned by assemblyai.transcribe
    utterances,      \* transcript.utterances (reassigned by segmentation)
    origin,          \* origin[k]: index of the input utterance that pushed result k (0: none)
    sentences,       \* sentence list handed to the regrouping, <<>> in a run
    fetchCalls,      \* number of times the run evaluated assemblyai.getSentences(...)
    failedAt,        \* stage whose error ended the run, "" while none
    request,         \* request sent to the speaker classifier, NoValue before
    identification,  \* value returned by identifySpeakers, NoValue before
    thrown,          \* message of the error the classifier call threw, "" if none
    argv,            \* command line of the run: [audioFile, isUrl, force, noDiarize, output]
    openai,          \* TRUE iff initClients built an OpenAI client (key set)
    store,           \* rows of the transcripts table
    files,           \* documents in the output directory: [path, content]
    cleanup,         \* sourceInfo.cleanup: "null" or "registered"
    cleanupCalls,    \* number of calls of sourceInfo.cleanup
    transcriptId,    \* transcript.id, "" before transcription
    enriched,        \* value returned by identifyAndFormat, NoValue before
    written,         \* path the run wrote its document to, NoValue before
    saved,           \* row the run upserted, NoValue before
    issued,          \* indices of the utterances a reflow request went out for
    got,             \* responses received so far, by index of the utterance
    completion,      \* indices of the answered reflow requests, in order of answer
    applied,         \* number of applications of mapSpeakerNames
    procs,           \* overlapping runs at their output path: [at, counter, path]
    runs,            \* number of invocations of the tool that have ended
    reflowed         \* merged reflowed and text of breakOnePassage, NoValue before

vars == <<pc, inputUtterances, utterances, origin, sentences, fetchCalls, failedAt,
          request, identification, thrown, argv, openai, store, files, cleanup,
          cleanupCalls, transcriptId, enriched, written, saved, issued, got,
          completion, applied, procs, runs, reflowed>>

segVars == <<inputUtterances, utterances, origin, sentences, fetchCalls>>
idVars == <<request, identification, thrown>>
envVars == <<argv, openai, store, files>>
runVars == <<cleanup, transcriptId, enriched, written, saved>>
flowVars == <<issued, got, completion, applied>>
multiVars == <<procs, runs, reflowed>>

\* A variable not assigned yet holds NoValue, an assigned one Some(value).
NoValue == <<>>
Some(value) == << value >>

-----------------------------------------------------------------------------
(* Bounds and program constants *)

MaxUtterances == 2
MaxSentences == 2
MaxSampleLen == 56
MaxMapping == 2
MaxApplications == 2

CHUNK_THRESHOLD == 4000
SAMPLE_MAX == 50
beginCount == 20
midCount == 15
endCount == 15
PARAGRAPH_THRESHOLD == 1500
MIN_PARAGRAPH == 150

Speakers == {"A", "B"}
\* Two instants are enough to place a sentence inside, outside or across an
\* utterance, and to let two utterances overlap or follow each other.
Times == 0 .. 1

-----------------------------------------------------------------------------
(* Strings *)

Str(c, n) == IF n = 0 THEN <<>> ELSE << [c |-> c, n |-> n] >>

RECURSIVE StrLen(_)
StrLen(s) == IF s = <<>> THEN 0 ELSE s[1].n + StrLen(Tail(s))

\* s + t
Concat(s, t) ==
    IF s = <<>> THEN t
    ELSE IF t = <<>> THEN s
    ELSE IF s[Len(s)].c = t[1].c
         THEN SubSeq(s, 1, Len(s) - 1)
              \o << [c |-> t[1].c, n |-> s[Len(s)].n + t[1].n] >>
              \o Tail(t)
         ELSE s \o t

Space == Str(" ", 1)

\* texts.join(sep)
RECURSIVE Join(_, _)
Join(texts, sep) ==
    IF texts = <<>> THEN <<>>
    ELSE IF Len(texts) = 1 THEN texts[1]
    ELSE Concat(Concat(texts[1], sep), Join(Tail(texts), sep))

\* texts without the empty strings at its head.
RECURSIVE DropLeadingEmpty(_)
DropLeadingEmpty(texts) ==
    IF texts = <<>> THEN <<>>
    ELSE IF texts[1] = <<>> THEN DropLeadingEmpty(Tail(texts))
    ELSE texts

\* The text accumulated from texts[a..b], starting from the empty string, by
\* text += (text ? ' ' : '') + next: the empty strings at the head add
\* nothing, every later one is appended after a space.
Accumulated(texts, a, b) == Join(DropLeadingEmpty(SubSeq(texts, a, b)), Space)

-----------------------------------------------------------------------------
(* Input data: what the transcription provider can return *)

Half == CHUNK_THRESHOLD \div 2

ShortText == Str("c", 10)
LongText == Concat(Concat(Str("a", Half), Space), Str("b", Half + 1))

\* Sentence contents: two sentences that fit together in one chunk only
\* when both are of the first kind, one sentence that alone exceeds the
\* threshold, and one sentence without text.
SentenceContents ==
    { [speaker |-> "A", text |-> Str("a", Half)],
      [speaker |-> "A", text |-> Str("b", Half + 1)],
      [speaker |-> "B", text |-> Str("a", CHUNK_THRESHOLD + 1)],
      [speaker |-> "A", text |-> <<>>] }

SentenceUnits ==
    { [speaker |-> c.speaker, text |-> c.text, start |-> s, end |-> e] :
        c \in SentenceContents, s \in Times, e \in Times }

UtteranceUnits ==
    [speaker : Speakers, text : {ShortText, LongText}, start : Times, end : Times]

\* Provider data is timestamped start <= end and listed by start time.
WellTimed(list) ==
    /\ \A i \in 1 .. Len(list) : list[i].start <= list[i].end
    /\ \A i \in 1 .. Len(list) - 1 : list[i].start <= list[i + 1].start

ListsOf(units, maxLen) ==
    { l \in UNION { [1 .. n -> units] : n \in 0 .. maxLen } : WellTimed(l) }

Transcripts == ListsOf(UtteranceUnits, MaxUtterances)
SentenceLists == ListsOf(SentenceUnits, MaxSentences)

-----------------------------------------------------------------------------
(* Segmentation: groupSentences and splitLongUtterances *)

\* groupLoop with the flush test on the accumulated text alone.
RECURSIVE groupLoopLateFlush(_, _, _, _, _)
groupLoopLateFlush(sents, i, current, grouped, maxChars) ==
    IF i > Len(sents)
    THEN IF current.text # <<>> THEN Append(grouped, current) ELSE grouped
    ELSE LET s == sents[i]
             flush == StrLen(current.text) > maxChars
             g1 == IF flush THEN Append(grouped, current) ELSE grouped
             c1 == IF flush
                   THEN [speaker |-> s.speaker, text |-> <<>>, start |-> s.start, end |-> 0]
                   ELSE current
             c2 == [c1 EXCEPT
                      !.text = Concat(Concat(c1.text, IF c1.text # <<>> THEN Space ELSE <<>>),
                                      s.text),
                      !.end = s.end]
         IN  groupLoopLateFlush(sents, i + 1, c2, g1, maxChars)

\* groupLoop closing the chunk before every sentence.
RECURSIVE groupLoopEveryFlush(_, _, _, _, _)
groupLoopEveryFlush(sents, i, current, grouped, maxChars) ==
    IF i > Len(sents)
    THEN IF current.text # <<>> THEN Append(grouped, current) ELSE grouped
    ELSE LET s == sents[i]
             flush == StrLen(current.text) > 0
             g1 == IF flush THEN Append(grouped, current) ELSE grouped
             c1 == IF flush
                   THEN [speaker |-> s.speaker, text |-> <<>>, start |-> s.start, end |-> 0]
                   ELSE current
             c2 == [c1 EXCEPT
                      !.text = Concat(Concat(c1.text, IF c1.text # <<>> THEN Space ELSE <<>>),
                                      s.text),
                      !.end = s.end]
         IN  groupLoopEveryFlush(sents, i + 1, c2, g1, maxChars)

\* One pass of the for loop of groupSentences over sentences[i..].
RECURSIVE groupLoop(_, _, _, _, _)
groupLoop(sents, i, current, grouped, maxChars) ==
    IF i > Len(sents)
    THEN IF current.text # <<>> THEN Append(grouped, current) ELSE grouped
    ELSE LET s == sents[i]
             flush == /\ StrLen(current.text) + StrLen(s.text) > maxChars
                      /\ StrLen(current.text) > 0
             g1 == IF flush THEN Append(grouped, current) ELSE grouped
             c1 == IF flush
                   THEN [speaker |-> s.speaker, text |-> <<>>, start |-> s.start, end |-> 0]
                   ELSE current
             c2 == [c1 EXCEPT
                      !.text = Concat(Concat(c1.text, IF c1.text # <<>> THEN Space ELSE <<>>),
                                      s.text),
                      !.end = s.end]
         IN  groupLoop(sents, i + 1, c2, g1, maxChars)

\* groupSentences reads sentences[0] before the loop: an empty list throws.
groupSentencesThrows(sents) == sents = <<>>

groupSentences(sents, maxChars) ==
    groupLoop(sents, 1,
              [speaker |-> sents[1].speaker, text |-> <<>>, start |-> sents[1].start, end |-> 0],
              <<>>, maxChars)

\* uSentences selecting by overlap instead of containment.
uSentencesByOverlap(u, sents) ==
    SelectSeq(sents, LAMBDA s : s.end >= u.start /\ s.start <= u.end)

\* sentences.filter(s => s.start >= u.start && s.end <= u.end)
uSentences(u, sents) ==
    SelectSeq(sents, LAMBDA s : s.start >= u.start /\ s.end <= u.end)

\* splitOne that regroups every utterance, short ones included.
splitOneRegroupsAll(u, sents, threshold) ==
    IF Len(uSentences(u, sents)) = 0 THEN << u >>
    ELSE LET groups == groupSentences(uSentences(u, sents), threshold)
         IN  [k \in 1 .. Len(groups) |->
                [u EXCEPT !.text = groups[k].text,
                          !.start = groups[k].start,
                          !.end = groups[k].end]]

\* What one iteration of the loop of splitLongUtterances pushes for u.
splitOne(u, sents, threshold) ==
    IF StrLen(u.text) <= threshold THEN << u >>
    ELSE IF Len(uSentences(u, sents)) = 0 THEN << u >>
    ELSE LET groups == groupSentences(uSentences(u, sents), threshold)
         IN  [k \in 1 .. Len(groups) |->
                [u EXCEPT !.text = groups[k].text,
                          !.start = groups[k].start,
                          !.end = groups[k].end]]

RECURSIVE splitLongUtterances(_, _, _)
splitLongUtterances(utts, sents, threshold) ==
    IF utts = <<>> THEN <<>>
    ELSE splitOne(utts[1], sents, threshold)
         \o splitLongUtterances(Tail(utts), sents, threshold)

\* Index of the input utterance whose iteration pushed each result element.
RECURSIVE splitOrigin(_, _, _, _)
splitOrigin(utts, sents, threshold, i) ==
    IF i > Len(utts) THEN <<>>
    ELSE [k \in 1 .. Len(splitOne(utts[i], sents, threshold)) |-> i]
         \o splitOrigin(utts, sents, threshold, i + 1)

\* Variant: any utterance with text counts as long.
hasLongUtterancesAnyText(utts) ==
    \E i \in 1 .. Len(utts) : StrLen(utts[i].text) > 0

\* transcript.utterances.some(u => u.text.length > CHUNK_THRESHOLD)
hasLongUtterances(utts) ==
    \E i \in 1 .. Len(utts) : StrLen(utts[i].text) > CHUNK_THRESHOLD

\* [...new Set(values)] : the distinct values in order of first occurrence
NewSet(values) ==
    LET firsts == { i \in 1 .. Len(values) : \A j \in 1 .. i - 1 : values[j] # values[i] }
        nth(k) == CHOOSE i \in firsts : Cardinality({ j \in firsts : j < i }) = k - 1
    IN  [k \in 1 .. Cardinality(firsts) |-> values[nth(k)]]

\* const speakers = utterances.length > 0 ? [...new Set(utterances.map(u => u.speaker))] : []
detectedSpeakers(utts) ==
    IF Len(utts) > 0 THEN NewSet([i \in 1 .. Len(utts) |-> utts[i].speaker]) ELSE <<>>

-----------------------------------------------------------------------------
(* The segmentation step of handleTranscribe *)

\* Variant: the cleanup as the last statement of the try block.
CleanupAtEndOfTry ==
    cleanupCalls' = IF cleanup = "registered" /\ pc' = "done"
                    THEN cleanupCalls + 1 ELSE cleanupCalls

\* finally { if (sourceInfo.cleanup) sourceInfo.cleanup(); }
Finally ==
    cleanupCalls' = IF cleanup = "registered" THEN cleanupCalls + 1 ELSE cleanupCalls

\* No utterance is longer than the threshold: no call, list kept.
SegmentSkip ==
    /\ pc = "segment"
    /\ ~hasLongUtterances(utterances)
    /\ pc' = "enrich"
    /\ UNCHANGED <<multiVars, flowVars, segVars, failedAt, idVars, envVars, runVars, cleanupCalls>>

\* The regrouping of a sentence list in hand, on one of the two paths:
\* groupSentences(sentences) for one detected speaker, splitLongUtterances
\* otherwise. The client that createAssemblyAIClient builds has no
\* getSentences, so no run of handleTranscribe gets here: the step is the
\* application of the two functions to their inputs.
Regroup ==
    /\ pc = "regroup"
    /\ IF Len(detectedSpeakers(utterances)) = 1
       THEN IF groupSentencesThrows(sentences)
            THEN /\ pc' = "failed"
                 /\ failedAt' = "segment"
                 /\ Finally
                 /\ UNCHANGED <<utterances, origin>>
            ELSE /\ utterances' = groupSentences(sentences, CHUNK_THRESHOLD)
                 /\ origin' = [k \in 1 .. Len(groupSentences(sentences, CHUNK_THRESHOLD)) |-> 0]
                 /\ pc' = "enrich"
                 /\ UNCHANGED <<failedAt, cleanupCalls>>
       ELSE /\ utterances' = splitLongUtterances(utterances, sentences, CHUNK_THRESHOLD)
            /\ origin' = splitOrigin(utterances, sentences, CHUNK_THRESHOLD, 1)
            /\ pc' = "enrich"
            /\ UNCHANGED <<failedAt, cleanupCalls>>
    /\ UNCHANGED <<multiVars, flowVars, inputUtterances, sentences, fetchCalls, idVars, envVars,
                   runVars>>

\* Variant: the rejection is swallowed and the run goes on with the old list.
SegmentFetchSwallowed ==
    /\ pc = "segment"
    /\ hasLongUtterances(utterances)
    /\ fetchCalls' = fetchCalls + 1
    /\ pc' = "enrich"
    /\ failedAt' = "sentences"
    /\ UNCHANGED <<multiVars, flowVars, inputUtterances, utterances, origin, sentences, idVars, envVars, runVars,
                   cleanupCalls>>

\* await assemblyai.getSentences(transcript.id): the client built by
\* createAssemblyAIClient has the method transcribe only, the call throws a
\* TypeError and the error leaves handleTranscribe through finally.
SegmentFetchFails ==
    /\ pc = "segment"
    /\ hasLongUtterances(utterances)
    /\ fetchCalls' = fetchCalls + 1
    /\ pc' = "failed"
    /\ failedAt' = "sentences"
    /\ Finally
    /\ UNCHANGED <<multiVars, flowVars, inputUtterances, utterances, origin, sentences, idVars, envVars, runVars>>

-----------------------------------------------------------------------------
(* Specification of the regrouping over every transcript and sentence list *)

\* The inputs of the regrouping: a transcript with an utterance over the
\* threshold and the sentence list of a sentence fetch.
InitSegment ==
    /\ pc = "regroup"
    /\ inputUtterances \in { t \in Transcripts : hasLongUtterances(t) }
    /\ utterances = inputUtterances
    /\ origin = [k \in 1 .. Len(inputUtterances) |-> k]
    /\ sentences \in SentenceLists
    /\ fetchCalls = 1
    /\ failedAt = ""
    /\ request = NoValue
    /\ identification = NoValue
    /\ thrown = ""
    /\ argv = [isUrl |-> FALSE, force |-> FALSE, noDiarize |-> FALSE,
             audioFile |-> "call.wav", output |-> <<>>]
    /\ openai = TRUE
    /\ store = {}
    /\ files = {}
    /\ cleanup = "null"
    /\ cleanupCalls = 0
    /\ transcriptId = "t1"
    /\ enriched = NoValue
    /\ written = NoValue
    /\ saved = NoValue
    /\ issued = {}
    /\ got = << >>
    /\ completion = << >>
    /\ applied = 0
    /\ procs = << >>
    /\ runs = 0
    /\ reflowed = NoValue

NextSegment == Regroup

SpecSegment == InitSegment /\ [][NextSegment]_vars

-----------------------------------------------------------------------------
(* Speaker identification: sampleUtterances and identifySpeakers *)

\* utterances.slice(from, to) for 0 <= from <= to <= length
Slice(seq, from, to) == SubSeq(seq, from + 1, to)

sampleUtterances(utts, maxTotal) ==
    IF Len(utts) <= maxTotal THEN utts
    ELSE LET beginning == Slice(utts, 0, beginCount)
             midStart == (Len(utts) - midCount) \div 2
             middle == Slice(utts, midStart, midStart + midCount)
             end == Slice(utts, Len(utts) - endCount, Len(utts))
         IN  beginning \o middle \o end

\* uniqueSpeakers taken from the sampled excerpt instead of the full list.
uniqueSpeakersOfSample(utts) ==
    NewSet([i \in 1 .. Len(sampleUtterances(utts, SAMPLE_MAX)) |->
              sampleUtterances(utts, SAMPLE_MAX)[i].speaker])

\* const uniqueSpeakers = [...new Set(utterances.map(u => u.speaker))]
uniqueSpeakers(utts) == NewSet([i \in 1 .. Len(utts) |-> utts[i].speaker])

\* What the classifier call of identifySpeakers can come to: it resolves with
\* a parsed mapping, or it throws an error that carries a message.
ErrorMessages == {"429 quota exceeded", "Request timed out"}
Confidences == {"high", "medium", "low"}
ClassifierResults(labels) ==
    { [speakers |-> [i \in 1 .. Len(labels) |->
                        [label |-> labels[i], name |-> nm[i], confidence |-> "high"]],
       reasoning |-> <<"introductions">>] :
          nm \in [1 .. Len(labels) -> {"Nick", "Sarah"}] }
    \cup { [speakers |-> <<>>, reasoning |-> <<"no evidence">>] }
\* message.parsed of a completion that carries a refusal instead of content.
Null == [null |-> TRUE]
ClassifierOutcomes(labels) ==
    { [kind |-> "parsed", result |-> r] : r \in ClassifierResults(labels) }
    \cup { [kind |-> "parsed", result |-> Null] }
    \cup { [kind |-> "throws", message |-> m] : m \in ErrorMessages }

\* The prompt built before the call: the sampled excerpt and the labels.
identifyRequest(utts) ==
    [excerpt |-> sampleUtterances(utts, SAMPLE_MAX), labels |-> uniqueSpeakers(utts)]

\* The value identifySpeakers returns, given how the classifier call ended.
identifySpeakers(utts, outcome) ==
    IF Len(utts) = 0
    THEN [speakers |-> <<>>, reasoning |-> <<"No utterances provided">>]
    ELSE IF outcome.kind = "parsed" THEN outcome.result
    ELSE [speakers |-> [i \in 1 .. Len(uniqueSpeakers(utts)) |->
                           [label |-> uniqueSpeakers(utts)[i],
                            name |-> uniqueSpeakers(utts)[i],
                            confidence |-> "low"]],
          reasoning |-> <<"Identification failed: ", outcome.message>>]

\* identifySpeakers up to its await: the request goes out.
IdentifyAsk ==
    /\ pc = "identify"
    /\ Len(utterances) > 0
    /\ request' = Some(identifyRequest(utterances))
    /\ pc' = "classify"
    /\ UNCHANGED <<multiVars, flowVars, segVars, failedAt, identification, thrown, envVars, runVars, cleanupCalls>>

\* identifySpeakers on an empty list returns without a call.
IdentifyEmpty ==
    /\ pc = "identify"
    /\ Len(utterances) = 0
    /\ identification' = Some(identifySpeakers(utterances, NoValue))
    /\ pc' = "identified"
    /\ UNCHANGED <<multiVars, flowVars, segVars, failedAt, request, thrown, envVars, runVars, cleanupCalls>>

\* The classifier call resolves or throws; identifySpeakers returns.
IdentifyAnswer ==
    /\ pc = "classify"
    /\ \E outcome \in ClassifierOutcomes(request[1].labels) :
          /\ identification' = Some(identifySpeakers(utterances, outcome))
          /\ thrown' = IF outcome.kind = "throws" THEN outcome.message ELSE ""
    /\ pc' = "identified"
    /\ UNCHANGED <<multiVars, flowVars, segVars, failedAt, request, envVars, runVars, cleanupCalls>>

\* Transcripts long enough to be sampled: utterance i carries its index as
\* timestamp, and at most one utterance is spoken by the second speaker.
SampleList(n, k) ==
    [i \in 1 .. n |->
        [speaker |-> IF i = k THEN "B" ELSE "A", text |-> ShortText,
         start |-> i - 1, end |-> i - 1]]
SampleLists == { SampleList(n, k) : n \in 0 .. MaxSampleLen, k \in 0 .. MaxSampleLen }

InitIdentify ==
    /\ pc = "identify"
    /\ inputUtterances \in SampleLists
    /\ utterances = inputUtterances
    /\ origin = [k \in 1 .. Len(inputUtterances) |-> k]
    /\ sentences = <<>>
    /\ fetchCalls = 0
    /\ failedAt = ""
    /\ request = NoValue
    /\ identification = NoValue
    /\ thrown = ""
    /\ argv = [isUrl |-> FALSE, force |-> FALSE, noDiarize |-> FALSE,
             audioFile |-> "call.wav", output |-> <<>>]
    /\ openai = TRUE
    /\ store = {}
    /\ files = {}
    /\ cleanup = "null"
    /\ cleanupCalls = 0
    /\ transcriptId = "t1"
    /\ enriched = NoValue
    /\ written = NoValue
    /\ saved = NoValue
    /\ issued = {}
    /\ got = << >>
    /\ completion = << >>
    /\ applied = 0
    /\ procs = << >>
    /\ runs = 0
    /\ reflowed = NoValue

NextIdentify ==
    \/ IdentifyAsk
    \/ IdentifyEmpty
    \/ IdentifyAnswer

SpecIdentify == InitIdentify /\ [][NextIdentify]_vars

-----------------------------------------------------------------------------
(* Paragraph breaking and enrichment: breakIntoParagraphs, identifyAndFormat *)

ParagraphBreak == Str("\n", 2)

\* The merge loop without the handling of the trailing buffer.
RECURSIVE mergeLoopDropsRemainder(_, _, _, _)
mergeLoopDropsRemainder(texts, i, buffer, merged) ==
    IF i > Len(texts)
    THEN merged
    ELSE LET b == IF buffer # <<>> THEN Concat(Concat(buffer, Space), texts[i]) ELSE texts[i]
         IN  IF StrLen(b) >= MIN_PARAGRAPH
             THEN mergeLoopDropsRemainder(texts, i + 1, <<>>, Append(merged, b))
             ELSE mergeLoopDropsRemainder(texts, i + 1, b, merged)

\* The merge loop of breakOnePassage over texts[i..], then the trailing buffer.
RECURSIVE mergeLoop(_, _, _, _)
mergeLoop(texts, i, buffer, merged) ==
    IF i > Len(texts)
    THEN IF buffer # <<>>
         THEN IF Len(merged) > 0
              THEN [merged EXCEPT ![Len(merged)] = Concat(Concat(@, Space), buffer)]
              ELSE Append(merged, buffer)
         ELSE merged
    ELSE LET b == IF buffer # <<>> THEN Concat(Concat(buffer, Space), texts[i]) ELSE texts[i]
         IN  IF StrLen(b) >= MIN_PARAGRAPH
             THEN mergeLoop(texts, i + 1, <<>>, Append(merged, b))
             ELSE mergeLoop(texts, i + 1, b, merged)

\* The text breakOnePassage resolves with (NoValue for null), given the
\* fragments the classifier returned.
breakOnePassage(texts) ==
    IF Len(texts) = 0 THEN NoValue
    ELSE Some(Join(mergeLoop(texts, 1, <<>>, <<>>), ParagraphBreak))

\* breakOnePassage(client, u.text).catch(error => ({ text: null, usage: null }))
\* A call that throws, or a parsed message of null (result.texts throws a
\* TypeError), ends in the catch.
passageResult(response) ==
    IF response.kind \in {"throws", "null"} THEN NoValue
    ELSE breakOnePassage(response.texts)

\* Indices of the utterances whose text is longer than the threshold.
longEntries(utts, threshold) ==
    { i \in 1 .. Len(utts) : StrLen(utts[i].text) > threshold }

\* Variant: one failed passage leaves every utterance as it was.
breakIntoParagraphsAllOrNothing(utts, responses) ==
    IF \E i \in longEntries(utts, PARAGRAPH_THRESHOLD) : passageResult(responses[i]) = NoValue
    THEN utts
    ELSE [i \in 1 .. Len(utts) |->
            IF /\ i \in longEntries(utts, PARAGRAPH_THRESHOLD)
               /\ passageResult(responses[i]) # Some(<<>>)
            THEN [utts[i] EXCEPT !.text = passageResult(responses[i])[1]]
            ELSE utts[i]]

\* breakIntoParagraphs, given the response to the request of each long entry.
breakIntoParagraphs(utts, responses) ==
    [i \in 1 .. Len(utts) |->
        IF /\ i \in longEntries(utts, PARAGRAPH_THRESHOLD)
           /\ passageResult(responses[i]) # NoValue
           /\ passageResult(responses[i]) # Some(<<>>)
        THEN [utts[i] EXCEPT !.text = passageResult(responses[i])[1]]
        ELSE utts[i]]

\* nameMap is a plain object ({}): a key it has no own property for is looked
\* up in Object.prototype, and an assignment of a string to __proto__ is
\* ignored, so that key always reads as the prototype.
InheritedKeys == {"constructor", "__proto__"}
Inherited(label) ==
    IF label = "constructor" THEN "[Function: Object]" ELSE "[Object: null prototype] {}"

\* The value nameMap[label] after the loop over the mapping ("" if undefined).
nameMap(speakerMapping, label) ==
    LET hits == { i \in 1 .. Len(speakerMapping) : speakerMapping[i].label = label }
    IN  IF label = "__proto__" THEN Inherited(label)
        ELSE IF hits # {}
        THEN speakerMapping[CHOOSE i \in hits : \A j \in hits : j <= i].name
        ELSE IF label \in InheritedKeys THEN Inherited(label)
        ELSE ""

mapSpeakerNames(utts, speakerMapping) ==
    IF Len(speakerMapping) = 0 THEN utts
    ELSE [i \in 1 .. Len(utts) |->
            [utts[i] EXCEPT !.speaker =
                IF nameMap(speakerMapping, utts[i].speaker) # ""
                THEN nameMap(speakerMapping, utts[i].speaker)
                ELSE utts[i].speaker]]

\* The loop over identification.speakers throws when identifySpeakers
\* returned the null it was handed as the parsed message.
identifyAndFormatThrows(client, utts, diarize, outcome) ==
    /\ Len(utts) > 0
    /\ client
    /\ diarize
    /\ identifySpeakers(utts, outcome) = Null

identifyAndFormat(client, utts, diarize, outcome, responses) ==
    IF Len(utts) = 0 \/ ~client
    THEN [utterances |-> utts, speakers |-> <<>>, reasoning |-> <<>>]
    ELSE IF ~diarize
    THEN [utterances |-> breakIntoParagraphs(utts, responses),
          speakers |-> <<>>, reasoning |-> <<>>]
    ELSE [utterances |-> mapSpeakerNames(breakIntoParagraphs(utts, responses),
                                         identifySpeakers(utts, outcome).speakers),
          speakers |-> identifySpeakers(utts, outcome).speakers,
          reasoning |-> identifySpeakers(utts, outcome).reasoning]

\* The fragments of a text cut at its spaces.
Fragments(text) ==
    LET words == SelectSeq(text, LAMBDA r : r.c # " ")
    IN  [k \in 1 .. Len(words) |-> << words[k] >>]

\* What the classifier can answer to the reflow request for a passage.
ParagraphResponses(text) ==
    { [kind |-> "throws", message |-> "Request timed out"],
      [kind |-> "parsed", texts |-> <<>>],
      [kind |-> "parsed", texts |-> Fragments(text)] }

\* The same, with a refusal (message.parsed is null) and fragments whose
\* words are not those of the passage.
Reworded == << Str("z", 200) >>
ReflowResponses(text) ==
    ParagraphResponses(text)
    \cup { [kind |-> "null"], [kind |-> "parsed", texts |-> Reworded] }

-----------------------------------------------------------------------------
(* identifyAndFormat step by step: the two branches of Promise.all *)

\* Which of its three ways identifyAndFormat takes.
strategyIgnoresDiarize(client, utts, diarize) ==
    IF Len(utts) = 0 \/ ~client THEN "empty" ELSE "full"

strategy(client, utts, diarize) ==
    IF Len(utts) = 0 \/ ~client THEN "empty"
    ELSE IF ~diarize THEN "paragraphs"
    ELSE "full"

\* longEntries as the array breakIntoParagraphs builds: indices in list order.
RECURSIVE entriesFrom(_, _, _)
entriesFrom(utts, threshold, i) ==
    IF i > Len(utts) THEN <<>>
    ELSE (IF StrLen(utts[i].text) > threshold THEN <<i>> ELSE <<>>)
         \o entriesFrom(utts, threshold, i + 1)

\* Variant: the results in the order the requests were answered.
resultsInCompletionOrder(entries, answers, order) ==
    [k \in 1 .. Len(entries) |-> answers[order[k]]]

\* Promise.all: result k is that of the k-th promise, whenever it settled.
results(entries, answers, order) ==
    [k \in 1 .. Len(entries) |-> answers[entries[k]]]

\* The response applied to each index by the loop over longEntries.
responsesByIndex(utts, entries, res) ==
    [i \in 1 .. Len(utts) |->
        IF \E k \in 1 .. Len(entries) : entries[k] = i
        THEN res[CHOOSE k \in 1 .. Len(entries) : entries[k] = i]
        ELSE NoValue]

\* The list breakIntoParagraphs resolves with once every request is answered.
broken(utts, answers, order) ==
    LET entries == entriesFrom(utts, PARAGRAPH_THRESHOLD, 1)
    IN  breakIntoParagraphs(utts, responsesByIndex(utts, entries,
                                                   results(entries, answers, order)))

\* Variant: the mapping applied to the list as it was handed in.
formatResultOfInput(utts, ident, paragraphs) ==
    [utterances |-> mapSpeakerNames(utts, ident.speakers),
     speakers |-> ident.speakers,
     reasoning |-> ident.reasoning]

\* The value identifyAndFormat returns from the two results of Promise.all.
formatResult(utts, ident, paragraphs) ==
    [utterances |-> mapSpeakerNames(paragraphs, ident.speakers),
     speakers |-> ident.speakers,
     reasoning |-> ident.reasoning]

\* identifyAndFormat up to its await: nothing to do, or the requests go out.
FormatStart ==
    /\ pc = "format"
    /\ IF strategy(openai, utterances, ~argv.noDiarize) = "empty"
       THEN /\ enriched' = Some([utterances |-> utterances, speakers |-> <<>>,
                                 reasoning |-> <<>>])
            /\ pc' = "formatted"
            /\ UNCHANGED <<request, issued>>
       ELSE /\ request' = IF strategy(openai, utterances, ~argv.noDiarize) = "full"
                          THEN Some(identifyRequest(utterances))
                          ELSE NoValue
            /\ issued' = longEntries(utterances, PARAGRAPH_THRESHOLD)
            /\ pc' = "awaiting"
            /\ UNCHANGED enriched
    /\ UNCHANGED <<segVars, failedAt, identification, thrown, envVars, cleanup,
                   transcriptId, written, saved, cleanupCalls, got, completion, applied,
                   multiVars>>

\* One reflow request is answered, in any order.
ReflowAnswer ==
    /\ pc = "awaiting"
    /\ \E i \in issued \ DOMAIN got :
       \E response \in ReflowResponses(utterances[i].text) :
          /\ got' = got @@ (i :> response)
          /\ completion' = Append(completion, i)
    /\ UNCHANGED <<pc, segVars, failedAt, idVars, envVars, runVars, cleanupCalls, issued,
                   applied, multiVars>>

\* The speaker request is answered and identifySpeakers returns.
SpeakerAnswer ==
    /\ pc = "awaiting"
    /\ request # NoValue
    /\ identification = NoValue
    /\ \E outcome \in ClassifierOutcomes(request[1].labels) :
          /\ outcome.kind = "throws" => outcome.message = "Request timed out"
          /\ identification' = Some(identifySpeakers(utterances, outcome))
          /\ thrown' = IF outcome.kind = "throws" THEN outcome.message ELSE ""
    /\ UNCHANGED <<pc, segVars, failedAt, request, envVars, runVars, cleanupCalls,
                   flowVars, multiVars>>

\* Every request is answered.
Settled ==
    /\ pc = "awaiting"
    /\ DOMAIN got = issued
    /\ request # NoValue => identification # NoValue

\* Promise.all resolves and identifyAndFormat returns.
FormatMerge ==
    /\ Settled
    /\ request # NoValue => identification[1] # Null
    /\ enriched' =
          IF request = NoValue
          THEN Some([utterances |-> broken(utterances, got, completion),
                     speakers |-> <<>>, reasoning |-> <<>>])
          ELSE Some(formatResult(utterances, identification[1],
                                 broken(utterances, got, completion)))
    /\ pc' = "formatted"
    /\ UNCHANGED <<segVars, failedAt, idVars, envVars, cleanup, transcriptId, written,
                   saved, cleanupCalls, flowVars, multiVars>>

\* Promise.all resolves with a null identification: identification.speakers
\* throws and identifyAndFormat rejects.
FormatThrows ==
    /\ Settled
    /\ request # NoValue
    /\ identification[1] = Null
    /\ pc' = "failed"
    /\ failedAt' = "enrich"
    /\ UNCHANGED <<segVars, idVars, envVars, runVars, cleanupCalls, flowVars, multiVars>>

\* Utterance lists for enrichment: texts below, at and above the paragraph
\* threshold, the first utterance at instant 0 and the later ones over [0, 1].
EdgeText == Str("d", PARAGRAPH_THRESHOLD)
PassageText ==
    Concat(Concat(Concat(Str("a", 100), Space), Concat(Str("b", 100), Space)),
           Str("a", PARAGRAPH_THRESHOLD - 100))
EnrichTexts == {ShortText, EdgeText, PassageText}
EnrichLists ==
    { l \in UNION { [1 .. n -> [speaker : Speakers, text : EnrichTexts,
                                start : Times, end : Times]] :
                       n \in 0 .. MaxUtterances } :
        \A i \in 1 .. Len(l) : l[i].start = 0 /\ l[i].end = IF i = 1 THEN 0 ELSE 1 }

InitEnrich ==
    /\ pc = "format"
    /\ inputUtterances \in EnrichLists
    /\ utterances = inputUtterances
    /\ origin = [k \in 1 .. Len(inputUtterances) |-> k]
    /\ sentences = <<>>
    /\ fetchCalls = 0
    /\ failedAt = ""
    /\ request = NoValue
    /\ identification = NoValue
    /\ thrown = ""
    /\ argv \in [isUrl : {FALSE}, force : {FALSE}, noDiarize : BOOLEAN,
                audioFile : {"call.wav"}, output : {<<>>}]
    /\ openai \in BOOLEAN
    /\ store = {}
    /\ files = {}
    /\ cleanup = "null"
    /\ cleanupCalls = 0
    /\ transcriptId = "t1"
    /\ enriched = NoValue
    /\ written = NoValue
    /\ saved = NoValue
    /\ issued = {}
    /\ got = << >>
    /\ completion = << >>
    /\ applied = 0
    /\ procs = << >>
    /\ runs = 0
    /\ reflowed = NoValue

NextEnrich ==
    \/ FormatStart
    \/ ReflowAnswer
    \/ SpeakerAnswer
    \/ FormatMerge
    \/ FormatThrows

SpecEnrich == InitEnrich /\ [][NextEnrich]_vars

-----------------------------------------------------------------------------
(* Specification of mapSpeakerNames applied again and again *)

MapLabels == {"A", "constructor", "__proto__"}
MapUnits == [speaker : MapLabels, text : {ShortText}, start : {0}, end : {0}]
MapEntries ==
    UNION { { [label |-> l, name |-> n, confidence |-> "low"] : n \in {l, "Nick", ""} } :
                l \in MapLabels }
MapLists == UNION { [1 .. n -> MapUnits] : n \in 0 .. MaxUtterances }
Mappings == UNION { [1 .. n -> MapEntries] : n \in 0 .. MaxMapping }

\* utterances = mapSpeakerNames(utterances, mapping)
MapNames ==
    /\ pc = "map"
    /\ applied < MaxApplications
    /\ utterances' = mapSpeakerNames(utterances, identification[1].speakers)
    /\ applied' = applied + 1
    /\ UNCHANGED <<pc, inputUtterances, origin, sentences, fetchCalls, failedAt, idVars,
                   envVars, runVars, cleanupCalls, issued, got, completion,
                   multiVars>>

InitMap ==
    /\ pc = "map"
    /\ inputUtterances \in MapLists
    /\ utterances = inputUtterances
    /\ origin = [k \in 1 .. Len(inputUtterances) |-> k]
    /\ sentences = <<>>
    /\ fetchCalls = 0
    /\ failedAt = ""
    /\ request = NoValue
    /\ \E m \in Mappings : identification = Some([speakers |-> m, reasoning |-> <<>>])
    /\ thrown = ""
    /\ argv = [isUrl |-> FALSE, force |-> FALSE, noDiarize |-> FALSE,
             audioFile |-> "call.wav", output |-> <<>>]
    /\ openai = TRUE
    /\ store = {}
    /\ files = {}
    /\ cleanup = "null"
    /\ cleanupCalls = 0
    /\ transcriptId = "t1"
    /\ enriched = NoValue
    /\ written = NoValue
    /\ saved = NoValue
    /\ issued = {}
    /\ got = << >>
    /\ completion = << >>
    /\ applied = 0
    /\ procs = << >>
    /\ runs = 0
    /\ reflowed = NoValue

NextMap == MapNames

SpecMap == InitMap /\ [][NextMap]_vars

-----------------------------------------------------------------------------
(* Persistence: findBySourceUrl, saveTranscript, output path *)

Url == "https://a"
TranscriptIds == {"t1", "t2"}

\* isUrl(input): the input starts with http:// or https://
isUrl(input) == input \in {"https://a", "https://a/", "http://b"}

\* Command lines of a run on the URL or on a local file, output path not given.
RunArgs ==
    { a \in [isUrl : BOOLEAN, force : BOOLEAN, noDiarize : BOOLEAN,
              audioFile : {Url, "call.wav"}, output : {<<>>}] :
        a.isUrl = isUrl(a.audioFile) }

\* Variant: any row that came from a URL counts.
findBySourceUrlAny(rows, url) == \E r \in rows : r.source_url # "null"

\* SELECT ... FROM transcripts WHERE source_url = ?  (TRUE iff a row is found)
findBySourceUrl(rows, url) == \E r \in rows : r.source_url = url

\* Variant: the table is emptied before the insert.
saveTranscriptLatestOnly(rows, record) == { record }

\* Variant: INSERT OR IGNORE, the row of an id already stored is kept.
saveTranscriptKeepsFirst(rows, record) ==
    IF \E r \in rows : r.id = record.id THEN rows ELSE rows \cup { record }

\* INSERT OR REPLACE INTO transcripts ... keyed by id
saveTranscript(rows, record) == { r \in rows : r.id # record.id } \cup { record }

\* A path is the sequence of the pieces of its file name, as <<"x", ".md">>
\* or <<"x", " (", "2", ")", ".md">>; every document is in one directory.
existsSync(fs, path) == \E f \in fs : f.path = path

\* The name derived from the source title or file, and the extension of the
\* default format (markdown).
sourceFilename == "x"
outputExt == ".md"

\* resolve(VAULT_ROOT, argv.output), or the derived name in the transcripts
\* directory.
targetPath(output) == IF output # <<>> THEN output ELSE <<sourceFilename, outputExt>>

\* basename(path, ext): the name without ext if it ends with it.
basename(path, ext) ==
    IF Len(path) > 1 /\ path[Len(path)] = ext THEN SubSeq(path, 1, Len(path) - 1) ELSE path

\* `${counter}`
Digits == <<"1", "2", "3", "4", "5", "6", "7", "8", "9">>
Decimal(n) == Digits[n]

\* `${base} (${counter})${outputExt}`
numbered(base, counter, ext) == base \o <<" (", Decimal(counter), ")", ext>>

\* while (existsSync(...)) counter++
RECURSIVE probe(_, _, _, _)
probe(fs, base, counter, ext) ==
    IF existsSync(fs, numbered(base, counter, ext))
    THEN probe(fs, base, counter + 1, ext)
    ELSE counter

\* The collision handling of handleTranscribe.
outputPath(fs, target, ext) ==
    IF existsSync(fs, target)
    THEN numbered(basename(target, ext), probe(fs, basename(target, ext), 2, ext), ext)
    ELSE target

\* writeFileSync(outputPath, content)
writeFileSync(fs, path, content) ==
    { f \in fs : f.path # path } \cup { [path |-> path, content |-> content] }

\* The document: front matter (id, speakers) and the utterances.
formatMarkdown(utts, id, speakerNames) ==
    [transcriptId |-> id, speakers |-> speakerNames, utterances |-> utts]

speakerNamesOf(speakerMapping) ==
    [i \in 1 .. Len(speakerMapping) |-> speakerMapping[i].name]

-----------------------------------------------------------------------------
(* The run: handleTranscribe *)

\* The URL was already transcribed and --force is not set: process.exit(1).
ResolveDuplicate ==
    /\ pc = "resolve"
    /\ argv.isUrl /\ ~argv.force /\ findBySourceUrl(store, argv.audioFile)
    /\ pc' = "duplicate"
    /\ UNCHANGED <<multiVars, flowVars, segVars, failedAt, idVars, envVars, runVars, cleanupCalls>>

\* The URL is not stored, or --force is set: downloadAudio is called and
\* the run waits for it.
ResolveUrl ==
    /\ pc = "resolve"
    /\ argv.isUrl /\ (argv.force \/ ~findBySourceUrl(store, argv.audioFile))
    /\ pc' = "download"
    /\ UNCHANGED <<multiVars, flowVars, segVars, failedAt, idVars, envVars, runVars, cleanupCalls>>

\* downloadAudio resolves (cleanup registered) or rejects, before the try;
\* the store is not read again.
DownloadSettles ==
    /\ pc = "download"
    /\ \/ /\ cleanup' = "registered"
          /\ pc' = "transcribe"
          /\ UNCHANGED failedAt
       \/ /\ pc' = "failed"
          /\ failedAt' = "download"
          /\ UNCHANGED cleanup
    /\ UNCHANGED <<multiVars, flowVars, segVars, idVars, envVars, transcriptId, enriched, written, saved,
                   cleanupCalls>>

\* A local file: no cleanup; validateAudioFile passes or throws, before the try.
ResolveLocal ==
    /\ pc = "resolve"
    /\ ~argv.isUrl
    /\ \/ /\ pc' = "transcribe"
          /\ UNCHANGED failedAt
       \/ /\ pc' = "failed"
          /\ failedAt' = "validate"
    /\ UNCHANGED <<multiVars, flowVars, segVars, idVars, envVars, runVars, cleanupCalls>>

\* assemblyai.transcribe resolves with a transcript.
Transcribed(utts) ==
    /\ pc = "transcribe"
    /\ \E id \in TranscriptIds : transcriptId' = id
    /\ inputUtterances' = utts
    /\ utterances' = utts
    /\ origin' = [k \in 1 .. Len(utts) |-> k]
    /\ pc' = "segment"
    /\ UNCHANGED <<multiVars, flowVars, sentences, fetchCalls, failedAt, idVars, envVars, cleanup, enriched,
                   written, saved, cleanupCalls>>

\* assemblyai.transcribe throws (error status): out through finally.
TranscribeFails ==
    /\ pc = "transcribe"
    /\ pc' = "failed"
    /\ failedAt' = "transcribe"
    /\ Finally
    /\ UNCHANGED <<multiVars, flowVars, segVars, idVars, envVars, runVars>>

\* The classifier calls identifyAndFormat makes: one for the speakers when
\* there is a client, diarization and an utterance; one per long passage
\* when there is a client.
speakerOutcomes ==
    IF openai /\ ~argv.noDiarize /\ Len(utterances) > 0
    THEN { o \in ClassifierOutcomes(uniqueSpeakers(utterances)) :
             o.kind = "throws" => o.message = "Request timed out" }
    ELSE { NoValue }

passageResponses(i) ==
    IF openai /\ i \in longEntries(utterances, PARAGRAPH_THRESHOLD)
    THEN ParagraphResponses(utterances[i].text)
    ELSE { NoValue }

\* identifyAndFormat reads identification.speakers of a null identification:
\* a TypeError that leaves handleTranscribe through finally.
EnrichThrows ==
    /\ pc = "enrich"
    /\ \E outcome \in speakerOutcomes :
          identifyAndFormatThrows(openai, utterances, ~argv.noDiarize, outcome)
    /\ pc' = "failed"
    /\ failedAt' = "enrich"
    /\ Finally
    /\ UNCHANGED <<multiVars, flowVars, segVars, idVars, envVars, runVars>>

\* await identifyAndFormat(openai, transcript.utterances, { diarize, context })
Enrich ==
    /\ pc = "enrich"
    /\ \E outcome \in speakerOutcomes :
       \E responses \in [1 .. Len(utterances) ->
                            UNION { passageResponses(i) : i \in 1 .. Len(utterances) }] :
          /\ \A i \in 1 .. Len(utterances) : responses[i] \in passageResponses(i)
          /\ ~identifyAndFormatThrows(openai, utterances, ~argv.noDiarize, outcome)
          /\ enriched' = Some(identifyAndFormat(openai, utterances, ~argv.noDiarize,
                                                outcome, responses))
    /\ pc' = "persist"
    /\ UNCHANGED <<multiVars, flowVars, segVars, failedAt, idVars, envVars, cleanup, transcriptId, written,
                   saved, cleanupCalls>>

\* The document the run formats from the enriched utterances.
content ==
    formatMarkdown(enriched[1].utterances, transcriptId, speakerNamesOf(enriched[1].speakers))

\* Collision handling and writeFileSync(outputPath, content).
WriteDocument ==
    /\ pc = "persist"
    /\ \/ /\ files' = writeFileSync(files, outputPath(files, targetPath(argv.output), outputExt), content)
          /\ written' = Some(outputPath(files, targetPath(argv.output), outputExt))
          /\ pc' = "save"
          /\ UNCHANGED <<failedAt, cleanupCalls>>
       \/ /\ pc' = "failed"
          /\ failedAt' = "write"
          /\ Finally
          /\ UNCHANGED <<files, written>>
    /\ UNCHANGED <<multiVars, flowVars, segVars, idVars, argv, openai, store, cleanup, transcriptId, enriched,
                   saved>>

\* The row handed to saveTranscript.
record ==
    [id |-> transcriptId,
     source_url |-> IF argv.isUrl THEN argv.audioFile ELSE "null",
     speakers |-> speakerNamesOf(enriched[1].speakers),
     file_path |-> written[1],
     content |-> content]

\* saveTranscript(DATA_DIR, {...}): the statement runs and the run goes on to
\* the console preview, or it throws and only the finally block runs.
SaveRecord ==
    /\ pc = "save"
    /\ \/ /\ store' = saveTranscript(store, record)
          /\ saved' = Some(record)
          /\ pc' = "preview"
          /\ UNCHANGED <<failedAt, cleanupCalls>>
       \/ /\ pc' = "failed"
          /\ failedAt' = "save"
          /\ Finally
          /\ UNCHANGED <<store, saved>>
    /\ UNCHANGED <<multiVars, flowVars, segVars, idVars, argv, openai, files, cleanup, transcriptId, enriched,
                   written>>

\* printConsoleOutput, the end of the try block and finally.
RunEnds ==
    /\ pc = "preview"
    /\ pc' = "done"
    /\ Finally
    /\ UNCHANGED <<multiVars, flowVars, segVars, failedAt, idVars, envVars, cleanup, transcriptId,
                   enriched, written, saved>>

\* Rows and documents left by earlier runs.
OldContent == [transcriptId |-> "t1", speakers |-> <<>>, utterances |-> <<>>]
OldRow ==
    [id |-> "t1", source_url |-> Url, speakers |-> <<>>,
     file_path |-> <<sourceFilename, outputExt>>,
     content |-> OldContent]
OldFile == [path |-> <<sourceFilename, outputExt>>, content |-> OldContent]

\* Rows of other sources: a URL that differs from the input in its last
\* character, and a local file.
OtherRow ==
    [id |-> "t2", source_url |-> "https://a/", speakers |-> <<>>,
     file_path |-> <<"y", outputExt>>,
     content |-> OldContent]
LocalRow ==
    [id |-> "t3", source_url |-> "null", speakers |-> <<>>,
     file_path |-> <<"z", outputExt>>,
     content |-> OldContent]

\* Another process of the tool stores its record: the processes share the
\* database and nothing orders them, so the save can fall before, between
\* and after any two steps of this run, its own save and its end included.
ConcurrentSave ==
    /\ \E r \in {OldRow, OtherRow, LocalRow} \ store : store' = saveTranscript(store, r)
    /\ UNCHANGED <<pc, multiVars, flowVars, segVars, failedAt, idVars, argv, openai, files,
                   runVars, cleanupCalls>>

\* The transcripts of the run: every utterance at instant 0.
RunTranscripts == { t \in Transcripts : \A i \in 1 .. Len(t) : t[i].end = 0 }

Init ==
    /\ pc = "resolve"
    /\ inputUtterances = <<>>
    /\ utterances = <<>>
    /\ origin = <<>>
    /\ sentences = <<>>
    /\ fetchCalls = 0
    /\ failedAt = ""
    /\ request = NoValue
    /\ identification = NoValue
    /\ thrown = ""
    /\ argv \in RunArgs
    /\ openai \in BOOLEAN
    /\ store \in { {}, {OldRow} }
    /\ files \in { {}, {OldFile} }
    /\ cleanup = "null"
    /\ cleanupCalls = 0
    /\ transcriptId = ""
    /\ enriched = NoValue
    /\ written = NoValue
    /\ saved = NoValue
    /\ issued = {}
    /\ got = << >>
    /\ completion = << >>
    /\ applied = 0
    /\ procs = << >>
    /\ runs = 0
    /\ reflowed = NoValue

Next ==
    \/ ResolveDuplicate
    \/ ResolveUrl
    \/ DownloadSettles
    \/ ResolveLocal
    \/ \E utts \in RunTranscripts : Transcribed(utts)
    \/ TranscribeFails
    \/ SegmentSkip
    \/ SegmentFetchFails
    \/ Enrich
    \/ EnrichThrows
    \/ WriteDocument
    \/ SaveRecord
    \/ RunEnds
    \/ ConcurrentSave

Spec == Init /\ [][Next]_vars

-----------------------------------------------------------------------------
(* Specification of the input resolution over every store *)

InitResolve ==
    /\ pc = "resolve"
    /\ inputUtterances = <<>>
    /\ utterances = <<>>
    /\ origin = <<>>
    /\ sentences = <<>>
    /\ fetchCalls = 0
    /\ failedAt = ""
    /\ request = NoValue
    /\ identification = NoValue
    /\ thrown = ""
    /\ argv \in RunArgs
    /\ openai \in BOOLEAN
    /\ store \in SUBSET {OldRow, OtherRow, LocalRow}
    /\ files \in { {}, {OldFile} }
    /\ cleanup = "null"
    /\ cleanupCalls = 0
    /\ transcriptId = ""
    /\ enriched = NoValue
    /\ written = NoValue
    /\ saved = NoValue
    /\ issued = {}
    /\ got = << >>
    /\ completion = << >>
    /\ applied = 0
    /\ procs = << >>
    /\ runs = 0
    /\ reflowed = NoValue

NextResolve ==
    \/ ResolveDuplicate
    \/ ResolveUrl
    \/ DownloadSettles
    \/ ConcurrentSave
    \/ ResolveLocal
    \/ \E utts \in RunTranscripts : Transcribed(utts)
    \/ TranscribeFails

SpecResolve == InitResolve /\ [][NextResolve]_vars

-----------------------------------------------------------------------------
(* Properties of segmentation *)

\* The sentence list in hand has been regrouped.
Segmented == fetchCalls = 1 /\ pc # "regroup" /\ failedAt \notin {"sentences", "segment"}
SinglePath == Len(detectedSpeakers(inputUtterances)) = 1
MultiSegmented == Segmented /\ ~SinglePath

Oversized(u) == StrLen(u.text) > CHUNK_THRESHOLD
\* Some fetched sentence lies within the span of u.
HasSentenceWithin(u) ==
    \E j \in 1 .. Len(sentences) :
        sentences[j].start >= u.start /\ sentences[j].end <= u.end
\* Output positions pushed for input utterance i.
IndicesFrom(i) == { k \in 1 .. Len(utterances) : origin[k] = i }
\* Output element k is an oversized input utterance emitted as it came.
PassThrough(k) ==
    /\ ~SinglePath
    /\ origin[k] \in 1 .. Len(inputUtterances)
    /\ utterances[k] = inputUtterances[origin[k]]
    /\ Oversized(utterances[k])
    /\ ~HasSentenceWithin(utterances[k])
\* Output element k is one fetched sentence that alone exceeds the threshold.
LoneLongSentence(k) ==
    \E j \in 1 .. Len(sentences) :
        /\ sentences[j].text = utterances[k].text
        /\ StrLen(sentences[j].text) > CHUNK_THRESHOLD
OriginOrdered ==
    /\ \A k \in 1 .. Len(utterances) : origin[k] \in 1 .. Len(inputUtterances)
    /\ \A k \in 1 .. Len(utterances) - 1 : origin[k] <= origin[k + 1]
\* The chunks pushed for input utterance i, in output order.
ChunkTextsFrom(i) ==
    LET sel == SelectSeq([k \in 1 .. Len(utterances) |-> <<origin[k], utterances[k].text>>],
                         LAMBDA p : p[1] = i)
    IN  [k \in 1 .. Len(sel) |-> sel[k][2]]
TextsOf(list) == [k \in 1 .. Len(list) |-> list[k].text]
NonOverlapping(list) ==
    \A i \in 1 .. Len(list) - 1 : list[i].end <= list[i + 1].start

\* C1 (as claimed): once segmentation is over, every utterance handed on has
\* text length <= 4000 unless it is an oversized input utterance with no
\* fetched sentence within its span.
C1_ThresholdAsClaimed ==
    pc = "enrich" =>
        \A k \in 1 .. Len(utterances) :
            StrLen(utterances[k].text) <= CHUNK_THRESHOLD \/ PassThrough(k)

\* C1 (amended): every utterance handed on has text length <= 4001 (the
\* separator added between two sentences is not counted by the flush test),
\* unless it is a passed-through oversized utterance or a chunk made of one
\* fetched sentence that is itself longer than 4000.
C1_ThresholdAmended ==
    pc = "enrich" =>
        \A k \in 1 .. Len(utterances) :
            \/ StrLen(utterances[k].text) <= CHUNK_THRESHOLD + 1
            \/ PassThrough(k)
            \/ LoneLongSentence(k)

\* A chunk of two sentences has replaced an oversized utterance and is one
\* character over the threshold, next to a passed-through or lone-sentence chunk.
C1_Witness ==
    /\ pc = "enrich"
    /\ Segmented
    /\ \E k \in 1 .. Len(utterances) :
          /\ StrLen(utterances[k].text) = CHUNK_THRESHOLD + 1
          /\ ~LoneLongSentence(k)
          /\ ~PassThrough(k)
    /\ \E k \in 1 .. Len(utterances) : PassThrough(k) \/ LoneLongSentence(k)

\* The fetched sentences that overlap the span of u spell the text of u.
SpelledBySentences(u) ==
    Join(TextsOf(SelectSeq(sentences, LAMBDA s : s.end >= u.start /\ s.start <= u.end)),
         Space) = u.text

\* C2: the chunks that replace an oversized utterance, joined in order,
\* spell the text of that utterance: nothing is dropped, nothing duplicated.
\* Stated for the fetched sentence lists that do spell the utterance (the
\* sentences overlapping its span, joined, are its text), which every
\* sentence list of the claim includes; on the single-speaker path, where
\* all chunks replace all utterances, for the lists that spell the transcript.
C2_ContentPreserved ==
    Segmented =>
        IF SinglePath
        THEN Join(TextsOf(sentences), Space) = Join(TextsOf(inputUtterances), Space)
                => Join(TextsOf(utterances), Space) = Join(TextsOf(inputUtterances), Space)
        ELSE \A i \in 1 .. Len(inputUtterances) :
                (/\ Oversized(inputUtterances[i])
                 /\ HasSentenceWithin(inputUtterances[i])
                 /\ SpelledBySentences(inputUtterances[i]))
                    => Join(ChunkTextsFrom(i), Space) = inputUtterances[i].text

\* C3: on the multi-speaker path every input utterance yields at least one
\* output utterance, and an oversized utterance with no sentence within its
\* span is emitted unmodified, once, at its own position.
C3_PassThroughKept ==
    MultiSegmented =>
        /\ OriginOrdered
        /\ \A i \in 1 .. Len(inputUtterances) :
              /\ IndicesFrom(i) # {}
              /\ (Oversized(inputUtterances[i]) /\ ~HasSentenceWithin(inputUtterances[i]))
                    => /\ Cardinality(IndicesFrom(i)) = 1
                       /\ \A k \in IndicesFrom(i) : utterances[k] = inputUtterances[i]

\* C5: on the multi-speaker path every utterance of length <= 4000 is in the
\* output unchanged, input order is kept, and the chunks of an oversized
\* utterance sit together at the position of that utterance.
C5_ShortUntouchedInPlace ==
    MultiSegmented =>
        /\ OriginOrdered
        /\ \A i \in 1 .. Len(inputUtterances) :
              ~Oversized(inputUtterances[i])
                    => /\ Cardinality(IndicesFrom(i)) = 1
                       /\ \A k \in IndicesFrom(i) : utterances[k] = inputUtterances[i]

\* A short utterance with a fetched sentence inside its span follows an
\* oversized utterance that was replaced by two chunks.
C5_Witness ==
    /\ MultiSegmented
    /\ Len(inputUtterances) = 2
    /\ Cardinality(IndicesFrom(1)) = 2
    /\ ~Oversized(inputUtterances[2])
    /\ HasSentenceWithin(inputUtterances[2])
    /\ utterances[3] = inputUtterances[2]

\* C6: every output utterance carries the label of the input utterance its
\* text stands for: the label of the replaced utterance on the multi-speaker
\* path, the single label of the transcript on the single-speaker path.
C6_SpeakerPreserved ==
    Segmented =>
        \A k \in 1 .. Len(utterances) :
            IF SinglePath
            THEN utterances[k].speaker = inputUtterances[1].speaker
            ELSE /\ origin[k] \in 1 .. Len(inputUtterances)
                 /\ utterances[k].speaker = inputUtterances[origin[k]].speaker

\* Timestamps of the output: start <= end, listed by start, and on the
\* multi-speaker path every chunk inside the span of the utterance it replaces.
TimestampsKept ==
    /\ \A k \in 1 .. Len(utterances) : utterances[k].start <= utterances[k].end
    /\ \A k \in 1 .. Len(utterances) - 1 : utterances[k].start <= utterances[k + 1].start
    /\ ~SinglePath =>
          \A k \in 1 .. Len(utterances) :
              /\ origin[k] \in 1 .. Len(inputUtterances)
              /\ utterances[k].start >= inputUtterances[origin[k]].start
              /\ utterances[k].end <= inputUtterances[origin[k]].end

-----------------------------------------------------------------------------
(* Properties of the run *)

\* The run has left the segmentation step (or failed in it).
PastSegment ==
    \/ pc \in {"enrich", "persist", "save", "preview", "done"}
    \/ pc = "failed" /\ failedAt \in {"sentences", "segment", "enrich", "write", "save"}

\* C4: when no utterance of the transcript is longer than the threshold the
\* run makes no sentence fetch and hands the transcription's utterance list
\* on unchanged; otherwise it makes exactly one sentence fetch, however many
\* utterances are oversized.
C4_FetchOnceIfNeeded ==
    PastSegment =>
        IF \E i \in 1 .. Len(inputUtterances) : Oversized(inputUtterances[i])
        THEN fetchCalls = 1
        ELSE /\ fetchCalls = 0
             /\ utterances = inputUtterances
             /\ (enriched # NoValue /\ ~openai =>
                    enriched[1].utterances = inputUtterances)

\* A run whose transcript had two oversized utterances has made its one
\* fetch call and ended.
C4_Witness ==
    /\ pc = "failed"
    /\ failedAt = "sentences"
    /\ fetchCalls = 1
    /\ Len(inputUtterances) = 2
    /\ \A i \in 1 .. 2 : Oversized(inputUtterances[i])

\* C8: when the sentence fetch fails the run ends failed after that single
\* call, with no enrichment, no document written and no record upserted; the
\* files are those that were there before the run, and the rows are those
\* that were there before it or that other processes have stored.
C8_FetchFailureFatal ==
    failedAt = "sentences" =>
        /\ pc = "failed"
        /\ fetchCalls = 1
        /\ enriched = NoValue
        /\ written = NoValue
        /\ saved = NoValue
        /\ files \subseteq {OldFile}
        /\ store \subseteq {OldRow, OtherRow, LocalRow}
        /\ utterances = inputUtterances

\* A run on a downloaded URL that failed at the sentence fetch and cleaned up.
C8_Witness ==
    /\ failedAt = "sentences"
    /\ pc = "failed"
    /\ \E i \in 1 .. Len(inputUtterances) : Oversized(inputUtterances[i])
    /\ cleanupCalls = 1

\* The run has ended inside the try block, in success or in failure.
EndedInTry ==
    \/ pc = "done"
    \/ pc = "failed" /\ failedAt \in {"transcribe", "sentences", "segment", "enrich",
                                        "write", "save"}

\* C19: once a remote input is downloaded its cleanup is called exactly once
\* on every way the run ends from transcription onward, and not before; for
\* a local file no cleanup is registered and none is called.
C19_CleanupOnEveryExit ==
    /\ cleanup = "registered" =>
          /\ argv.isUrl
          /\ cleanupCalls = IF EndedInTry THEN 1 ELSE 0
          /\ pc \in {"done", "failed"} => EndedInTry
    /\ ~argv.isUrl => (cleanup = "null" /\ cleanupCalls = 0)
    /\ (argv.isUrl /\ pc \notin {"resolve", "duplicate", "download"} /\ failedAt # "download") =>
          cleanup = "registered"

\* A run on a downloaded URL that failed writing its document, cleaned up once.
C19_Witness ==
    /\ argv.isUrl
    /\ cleanup = "registered"
    /\ pc = "failed"
    /\ failedAt = "write"
    /\ cleanupCalls = 1

\* The input is a URL, --force is not set, and a row of the store has
\* exactly this URL as its source.
DuplicateInput ==
    argv.isUrl /\ ~argv.force /\ \E r \in store : r.source_url = argv.audioFile

\* C20: the run aborts as a duplicate exactly when, as it looks the input
\* up, the input is a URL, the override is not set and a stored row has this
\* very URL; an aborted run has made no download and no transcription and
\* has written nothing; with the override, or for a local file, the run goes
\* on towards transcription.
C20_DuplicateAbort ==
    /\ [](pc = "duplicate" =>
            /\ DuplicateInput
            /\ cleanup = "null" /\ cleanupCalls = 0 /\ failedAt = ""
            /\ transcriptId = "" /\ inputUtterances = <<>>
            /\ enriched = NoValue /\ written = NoValue /\ saved = NoValue)
    /\ [][ (pc = "resolve" /\ pc' # "resolve") =>
              /\ pc' = "duplicate" <=> DuplicateInput
              /\ pc' \in {"duplicate", "download", "transcribe", "failed"} ]_vars

\* An aborted run whose store also holds a row of a nearly equal URL.
C20_Witness ==
    /\ pc = "duplicate"
    /\ store = {OldRow, OtherRow}

\* C11: nothing the classifier does is fatal to a run: the enrichment step
\* never fails the run, whatever the classifier answers or throws.
C11_ClassifierNeverFatal ==
    failedAt # "enrich"

-----------------------------------------------------------------------------
(* Properties of speaker identification *)

\* C9: sampleUtterances with cap 50 returns the whole list when it has at
\* most 50 utterances, and otherwise exactly 50: the first 20, the 15 from
\* index floor((n-15)/2) and the last 15, with strictly increasing indices
\* (no utterance twice). Utterance i of the list carries start = i - 1.
C9_SampleInOrder ==
    request # NoValue =>
        LET n == Len(utterances)
            s == request[1].excerpt
        IN  IF n <= 50 THEN s = utterances
            ELSE /\ Len(s) = 50
                 /\ \A k \in 1 .. 20 : s[k].start = k - 1
                 /\ \A k \in 1 .. 15 : s[20 + k].start = ((n - 15) \div 2) + k - 1
                 /\ \A k \in 1 .. 15 : s[35 + k].start = n - 15 + k - 1
                 /\ \A k \in 1 .. Len(s) - 1 : s[k].start < s[k + 1].start

\* C10: when the classifier call throws, identifySpeakers returns one entry
\* per distinct label of the full list and no other entry, each with
\* name = label and confidence low, and a reasoning that holds the message.
C10_GracefulDegradation ==
    thrown # "" =>
        /\ pc = "identified"
        /\ identification # NoValue
        /\ LET sp == identification[1].speakers
               labels == { utterances[i].speaker : i \in 1 .. Len(utterances) }
           IN  /\ \A l \in labels :
                      Cardinality({ i \in 1 .. Len(sp) : sp[i].label = l }) = 1
               /\ \A i \in 1 .. Len(sp) :
                      /\ sp[i].label \in labels
                      /\ sp[i].name = sp[i].label
                      /\ sp[i].confidence = "low"
               /\ \E j \in 1 .. Len(identification[1].reasoning) :
                      identification[1].reasoning[j] = thrown

\* The call threw on a transcript of more than 50 utterances whose second
\* label occurs only outside the sampled excerpt.
C10_Witness ==
    /\ thrown # ""
    /\ pc = "identified"
    /\ Len(utterances) > SAMPLE_MAX
    /\ \E i \in 1 .. Len(utterances) : utterances[i].speaker = "B"
    /\ \A k \in 1 .. Len(request[1].excerpt) : request[1].excerpt[k].speaker = "A"
    /\ Len(identification[1].speakers) = 2

\* C12: for a non-empty utterance list the mapping identifySpeakers returns
\* has exactly one entry for each distinct speaker label of the full list and
\* no entry for any other label, whether the classifier call succeeds or fails.
C12_MappingCoversLabels ==
    (pc = "identified" /\ Len(utterances) > 0) =>
        IF identification[1] = Null THEN FALSE
        ELSE LET speakers == identification[1].speakers
                 labels == { utterances[i].speaker : i \in 1 .. Len(utterances) }
             IN  /\ \A l \in labels :
                        Cardinality({ k \in 1 .. Len(speakers) : speakers[k].label = l }) = 1
                 /\ \A k \in 1 .. Len(speakers) : speakers[k].label \in labels

-----------------------------------------------------------------------------
(* Properties of mapSpeakerNames *)

\* Every entry of the mapping names its label.
IdentityMapping ==
    \A k \in 1 .. Len(identification[1].speakers) :
        identification[1].speakers[k].name = identification[1].speakers[k].label

\* C13 as stated: under a mapping all of whose entries have name = label, any
\* number of applications of mapSpeakerNames leaves every utterance list as
\* it was: same length, order, speaker, text, start and end.
C13_IdentityAsClaimed ==
    (pc = "map" /\ IdentityMapping) => utterances = inputUtterances

-----------------------------------------------------------------------------
(* Properties of enrichment *)

\* identifyAndFormat has returned a value.
Formatted == pc = "formatted" /\ enriched # NoValue

\* A text with every run of blanks and line breaks collapsed to one space.
RECURSIVE CollapseFrom(_, _, _)
CollapseFrom(text, i, acc) ==
    IF i > Len(text) THEN acc
    ELSE IF text[i].c \in {" ", "\n"}
    THEN CollapseFrom(text, i + 1,
                      IF acc # <<>> /\ acc[Len(acc)].c = " " THEN acc ELSE Concat(acc, Space))
    ELSE CollapseFrom(text, i + 1, Concat(acc, << text[i] >>))
Collapse(text) == CollapseFrom(text, 1, <<>>)

\* C14: a text stored by the paragraph reflower has the words of the original:
\* with the blank-line separators taken as blanks and blanks collapsed it
\* reads as the original text, whatever fragments the classifier returned.
C14_WordingPreserved ==
    Formatted =>
        \A i \in 1 .. Len(utterances) :
            enriched[1].utterances[i].text # utterances[i].text =>
                Collapse(enriched[1].utterances[i].text) = Collapse(utterances[i].text)

\* The request for utterance i failed: the call threw, the parsed message was
\* null, or the list of fragments was empty.
ReflowFailed(i) ==
    IF got[i].kind \in {"throws", "null"} THEN TRUE ELSE got[i].texts = <<>>

C16_ReflowByIndex ==
    /\ utterances = inputUtterances
    /\ \A i \in issued : StrLen(utterances[i].text) > PARAGRAPH_THRESHOLD
    /\ \A i \in 1 .. Len(utterances) : utterances[i].text = EdgeText => i \notin issued
    /\ (Formatted /\ request = NoValue) =>
          /\ Len(enriched[1].utterances) = Len(utterances)
          /\ \A i \in 1 .. Len(utterances) :
                LET out == enriched[1].utterances[i]
                IN  /\ out.speaker = utterances[i].speaker
                    /\ out.start = utterances[i].start
                    /\ out.end = utterances[i].end
                    /\ IF i \in issued /\ ~ReflowFailed(i)
                       THEN out.text = breakOnePassage(got[i].texts)[1]
                       ELSE out.text = utterances[i].text

\* Two passages whose requests were answered in reverse order with different
\* answers, the first utterance being at the threshold exactly.
C16_Witness ==
    /\ Formatted
    /\ request = NoValue
    /\ Len(utterances) = 2
    /\ issued = {1, 2}
    /\ completion = <<2, 1>>
    /\ got[1] = [kind |-> "parsed", texts |-> Fragments(utterances[1].text)]
    /\ got[2] = [kind |-> "parsed", texts |-> Reworded]
    /\ enriched[1].utterances[2].text = Reworded[1]

\* The speaker mapping is empty and every utterance has the label it came with.
NoResolution ==
    /\ enriched[1].speakers = <<>>
    /\ Len(enriched[1].utterances) = Len(utterances)
    /\ \A i \in 1 .. Len(utterances) :
          enriched[1].utterances[i].speaker = utterances[i].speaker

\* C17: the way of enrichment follows from (diarization, classifier): with no
\* classifier or no utterance the list comes back unchanged with an empty
\* mapping and no request is made; with a classifier and diarization off
\* only reflow requests are made, labels are unchanged and the mapping is
\* empty; the speaker request is made only with both.
C17_StrategyChosen ==
    /\ request # NoValue => (openai /\ ~argv.noDiarize /\ Len(utterances) > 0)
    /\ issued # {} => openai
    /\ (Formatted /\ (~openai \/ Len(utterances) = 0)) =>
          /\ enriched[1].utterances = utterances
          /\ NoResolution
          /\ request = NoValue /\ issued = {} /\ got = <<>>
    /\ (Formatted /\ openai /\ argv.noDiarize) =>
          /\ NoResolution
          /\ request = NoValue /\ identification = NoValue
          /\ issued = longEntries(utterances, PARAGRAPH_THRESHOLD)
    /\ (Formatted /\ openai /\ ~argv.noDiarize /\ Len(utterances) > 0) =>
          request # NoValue /\ identification # NoValue

\* A classifier with diarization off: the passage was reflowed, nothing resolved.
C17_Witness ==
    /\ Formatted
    /\ openai /\ argv.noDiarize
    /\ Len(utterances) = 2
    /\ issued = {2}
    /\ enriched[1].utterances[2].text # utterances[2].text
    /\ enriched[1].speakers = <<>>

\* The name the returned mapping gives label: that of its last entry for the
\* label if it has one with a name, else the label.
MappedName(label) ==
    LET speakers == enriched[1].speakers
        entries == { k \in 1 .. Len(speakers) : speakers[k].label = label }
        last == CHOOSE k \in entries : \A j \in entries : j <= k
    IN  IF entries = {} THEN label
        ELSE IF speakers[last].name = "" THEN label
        ELSE speakers[last].name

\* C18: with diarization and a classifier, the speaker request and the reflow
\* requests are out together on one list that neither modifies, and in every
\* order of their answers output utterance i has the reflowed text of input
\* i, the mapped name of its label, and its timestamps.
C18_MergeOfBranches ==
    request # NoValue =>
        /\ utterances = inputUtterances
        /\ issued = longEntries(utterances, PARAGRAPH_THRESHOLD)
        /\ Formatted =>
              /\ enriched[1].speakers = identification[1].speakers
              /\ Len(enriched[1].utterances) = Len(utterances)
              /\ \A i \in 1 .. Len(utterances) :
                    LET out == enriched[1].utterances[i]
                    IN  /\ out.start = utterances[i].start
                        /\ out.end = utterances[i].end
                        /\ out.speaker = MappedName(utterances[i].speaker)
                        /\ IF i \in issued /\ ~ReflowFailed(i)
                           THEN out.text = breakOnePassage(got[i].texts)[1]
                           ELSE out.text = utterances[i].text

\* The reflow requests were answered in reverse order beside the speaker
\* request; both speakers were named and the second passage was reflowed.
C18_Witness ==
    /\ Formatted
    /\ request # NoValue
    /\ Len(utterances) = 2
    /\ completion = <<2, 1>>
    /\ utterances[1].speaker = "A" /\ utterances[2].speaker = "B"
    /\ enriched[1].utterances[1].speaker = "Nick"
    /\ enriched[1].utterances[2].speaker = "Sarah"
    /\ enriched[1].utterances[2].text # utterances[2].text

-----------------------------------------------------------------------------
(* Specification of the document write over every directory content *)

\* The numbered names probed in the directories of the specification.
MaxNumbered == 3

\* An output path given with --output whose extension is not the one of the
\* format.
NotesTxt == <<"notes", ".txt">>

\* Documents that may lie in the output directory before the run.
DirectoryPaths ==
    { <<sourceFilename, outputExt>>, NotesTxt }
        \cup { numbered(<<sourceFilename>>, n, outputExt) : n \in 2 .. MaxNumbered }
        \cup { numbered(NotesTxt, n, outputExt) : n \in 2 .. MaxNumbered }
        \cup { numbered(<<"notes">>, n, ".txt") : n \in 2 .. MaxNumbered }

Directories == { { [path |-> p, content |-> OldContent] : p \in ps } : ps \in SUBSET DirectoryPaths }

\* The enrichment result of a run without a classifier.
PlainEnriched(utts) == identifyAndFormat(FALSE, utts, TRUE, NoValue, <<>>)

InitWrite ==
    /\ pc = "persist"
    /\ inputUtterances \in { t \in RunTranscripts : Len(t) = 1 /\ t[1].speaker = "A" }
    /\ utterances = inputUtterances
    /\ origin = <<1>>
    /\ sentences = <<>>
    /\ fetchCalls = 0
    /\ failedAt = ""
    /\ request = NoValue
    /\ identification = NoValue
    /\ thrown = ""
    /\ argv \in [isUrl : {FALSE}, force : {FALSE}, noDiarize : {FALSE},
                audioFile : {"call.wav"}, output : {<<>>, NotesTxt}]
    /\ openai = FALSE
    /\ store = {}
    /\ files \in Directories
    /\ cleanup = "null"
    /\ cleanupCalls = 0
    /\ transcriptId = "t2"
    /\ enriched = Some(PlainEnriched(utterances))
    /\ written = NoValue
    /\ saved = NoValue
    /\ issued = {}
    /\ got = << >>
    /\ completion = << >>
    /\ applied = 0
    /\ procs = << >>
    /\ runs = 0
    /\ reflowed = NoValue

NextWrite ==
    \/ WriteDocument
    \/ SaveRecord
    \/ RunEnds
    \/ ConcurrentSave

SpecWrite == InitWrite /\ [][NextWrite]_vars

\* The extension of a path and the path without it.
ExtensionOf(path) == path[Len(path)]
StemOf(path) == SubSeq(path, 1, Len(path) - 1)

\* The step that writes the document.
DocumentWritten == pc = "persist" /\ pc' = "save"

\* C21: when the target x<ext> exists, the document is written to
\* 'x (n)<ext>' with n the smallest integer >= 2 whose path is free, the
\* disambiguator standing before the extension of the target; a free target
\* is written as it is; every file that existed before the write keeps its
\* content.
C21_CollisionResolution ==
    [][ DocumentWritten =>
          LET target == targetPath(argv.output)
              name(n) == StemOf(target) \o <<" (", Decimal(n), ")", ExtensionOf(target)>>
          IN  /\ ~existsSync(files, target) => written' = Some(target)
              /\ existsSync(files, target) =>
                    \E n \in 2 .. Len(Digits) :
                        /\ written' = Some(name(n))
                        /\ ~existsSync(files, name(n))
                        /\ \A m \in 2 .. n - 1 : existsSync(files, name(m))
              /\ \A f \in files : f \in files' ]_vars

-----------------------------------------------------------------------------
(* Specification of two overlapping runs that derive the same output name *)

\* The runs are independent processes; each is at its collision handling,
\* with a document of its own to write.
Runs == {1, 2}
documentOf(p) ==
    formatMarkdown(<< [speaker |-> "A", text |-> ShortText, start |-> 0, end |-> 0] >>,
                   <<"t1", "t2">>[p], <<>>)

\* if (existsSync(outputPath)): the target is free, or the loop is entered
\* with counter = 2.
ProbeTarget(p) ==
    /\ procs[p].at = "probe"
    /\ procs' = [procs EXCEPT ![p] =
                    IF existsSync(files, targetPath(argv.output))
                    THEN [@ EXCEPT !.at = "loop", !.counter = 2]
                    ELSE [@ EXCEPT !.at = "write", !.path = targetPath(argv.output)]]
    /\ UNCHANGED <<pc, segVars, failedAt, idVars, envVars, runVars, cleanupCalls, flowVars, runs,
                   reflowed>>

\* One test of the while loop: counter++, or the numbered path is taken.
ProbeNumbered(p) ==
    LET base == basename(targetPath(argv.output), outputExt)
    IN  /\ procs[p].at = "loop"
        /\ procs' = [procs EXCEPT ![p] =
                        IF existsSync(files, numbered(base, @.counter, outputExt))
                        THEN [@ EXCEPT !.counter = @ + 1]
                        ELSE [@ EXCEPT !.at = "write",
                                       !.path = numbered(base, procs[p].counter, outputExt)]]
        /\ UNCHANGED <<pc, segVars, failedAt, idVars, envVars, runVars, cleanupCalls, flowVars,
                       runs, reflowed>>

\* writeFileSync(outputPath, content, 'utf-8')
WriteRacing(p) ==
    /\ procs[p].at = "write"
    /\ files' = writeFileSync(files, procs[p].path, documentOf(p))
    /\ procs' = [procs EXCEPT ![p].at = "written"]
    /\ UNCHANGED <<pc, segVars, failedAt, idVars, argv, openai, store, runVars, cleanupCalls,
                   flowVars, runs, reflowed>>

InitRace ==
    /\ pc = "persist"
    /\ inputUtterances = <<>>
    /\ utterances = <<>>
    /\ origin = <<>>
    /\ sentences = <<>>
    /\ fetchCalls = 0
    /\ failedAt = ""
    /\ request = NoValue
    /\ identification = NoValue
    /\ thrown = ""
    /\ argv = [isUrl |-> FALSE, force |-> FALSE, noDiarize |-> FALSE,
               audioFile |-> "call.wav", output |-> <<>>]
    /\ openai = FALSE
    /\ store = {}
    /\ files \in { d \in Directories : \A f \in d : f.path[1] = sourceFilename }
    /\ cleanup = "null"
    /\ cleanupCalls = 0
    /\ transcriptId = ""
    /\ enriched = NoValue
    /\ written = NoValue
    /\ saved = NoValue
    /\ issued = {}
    /\ got = << >>
    /\ completion = << >>
    /\ applied = 0
    /\ procs = [p \in Runs |-> [at |-> "probe", counter |-> 0, path |-> <<>>]]
    /\ runs = 0
    /\ reflowed = NoValue

NextRace ==
    \E p \in Runs :
        \/ ProbeTarget(p)
        \/ ProbeNumbered(p)
        \/ WriteRacing(p)

SpecRace == InitRace /\ [][NextRace]_vars

\* C22: when two overlapping runs have both written, they have written to two
\* different paths and the document of each is in the directory.
C22_NoOverwriteWhenOverlapping ==
    (\A p \in Runs : procs[p].at = "written") =>
        /\ procs[1].path # procs[2].path
        /\ \A p \in Runs : [path |-> procs[p].path, content |-> documentOf(p)] \in files

-----------------------------------------------------------------------------
(* Specification of successive invocations of the tool on one store *)

\* Number of invocations.
MaxRuns == 3

\* Command lines: the URL, another URL or a local file, with or without the
\* override.
OtherUrl == "https://a/"
SeriesArgs ==
    { a \in [isUrl : BOOLEAN, force : BOOLEAN, noDiarize : {FALSE},
              audioFile : {Url, OtherUrl, "call.wav"}, output : {<<>>}] :
        a.isUrl = isUrl(a.audioFile) }

\* The transcript every invocation gets: one short utterance.
SeriesTranscript == << [speaker |-> "A", text |-> ShortText, start |-> 0, end |-> 0] >>

\* The process has ended (done, failed or aborted as a duplicate) and the
\* tool is invoked again: a new process, on the same store and directory.
Invoke ==
    /\ pc \in {"done", "failed", "duplicate"}
    /\ runs + 1 < MaxRuns
    /\ runs' = runs + 1
    /\ argv' \in SeriesArgs
    /\ pc' = "resolve"
    /\ inputUtterances' = <<>>
    /\ utterances' = <<>>
    /\ origin' = <<>>
    /\ failedAt' = ""
    /\ cleanup' = "null"
    /\ cleanupCalls' = 0
    /\ transcriptId' = ""
    /\ enriched' = NoValue
    /\ written' = NoValue
    /\ saved' = NoValue
    /\ UNCHANGED <<sentences, fetchCalls, idVars, openai, store, files, flowVars, procs,
                   reflowed>>

InitSeries ==
    /\ pc = "resolve"
    /\ inputUtterances = <<>>
    /\ utterances = <<>>
    /\ origin = <<>>
    /\ sentences = <<>>
    /\ fetchCalls = 0
    /\ failedAt = ""
    /\ request = NoValue
    /\ identification = NoValue
    /\ thrown = ""
    /\ argv \in SeriesArgs
    /\ openai = FALSE
    /\ store = {}
    /\ files = {}
    /\ cleanup = "null"
    /\ cleanupCalls = 0
    /\ transcriptId = ""
    /\ enriched = NoValue
    /\ written = NoValue
    /\ saved = NoValue
    /\ issued = {}
    /\ got = << >>
    /\ completion = << >>
    /\ applied = 0
    /\ procs = << >>
    /\ runs = 0
    /\ reflowed = NoValue

NextSeries ==
    \/ ResolveDuplicate
    \/ ResolveUrl
    \/ DownloadSettles
    \/ ResolveLocal
    \/ Transcribed(SeriesTranscript)
    \/ TranscribeFails
    \/ SegmentSkip
    \/ Enrich
    \/ WriteDocument
    \/ SaveRecord
    \/ RunEnds
    \/ ConcurrentSave
    \/ Invoke

SpecSeries == InitSeries /\ [][NextSeries]_vars

\* The step in which saveTranscript stores the record of the run.
RecordSaved == saved = NoValue /\ saved' # NoValue

\* The step is an insert-or-replace of rec: afterwards rec is the row of its
\* id, in every column, and the rows of the other ids are as they were; the
\* row is replaced when the id was stored already (same number of rows) and
\* added when it was not.
Upserted(rec) ==
    /\ rec \in store'
    /\ \A r \in store' : r.id = rec.id => r = rec
    /\ \A r \in store : r.id # rec.id => r \in store'
    /\ \A r \in store' : r.id # rec.id => r \in store
    /\ Cardinality(store') =
          IF \E r \in store : r.id = rec.id
          THEN Cardinality(store)
          ELSE Cardinality(store) + 1

\* C23: the store never holds two rows of one id; the save of a run is an
\* insert-or-replace of its record, and so is every change of the store,
\* whichever process makes it and wherever it falls among the steps of the
\* runs.
C23_UpsertById ==
    /\ [](\A r1, r2 \in store : r1.id = r2.id => r1 = r2)
    /\ [][ /\ RecordSaved => Upserted(saved'[1])
           /\ store' # store => \E rec \in store' \ store : Upserted(rec) ]_vars

\* A third, forced run of the URL has saved under an id stored before, to a
\* third document, while the row of the other id is still stored.
C23_Witness ==
    /\ pc = "done" /\ runs = 2
    /\ argv.audioFile = Url /\ argv.force
    /\ saved[1].id = "t1"
    /\ saved[1].file_path = numbered(<<sourceFilename>>, 3, outputExt)
    /\ \E r \in store : r.id = "t2" /\ r.source_url = Url
    /\ \E f \in files : f.path = <<sourceFilename, outputExt>> /\ f.content.transcriptId = "t1"
    /\ Cardinality(store) = 2

-----------------------------------------------------------------------------
(* Further properties of segmentation *)

\* Ways to cut the fetched sentences into n runs of consecutive sentences:
\* last[k] is the index of the last sentence of run k.
CutsInto(n) ==
    { last \in [1 .. n -> 1 .. Len(sentences)] :
        /\ last[n] = Len(sentences)
        /\ \A k \in 1 .. n - 1 : last[k] < last[k + 1] }
FirstOf(last, k) == IF k = 1 THEN 1 ELSE last[k - 1] + 1

\* C24 (as claimed): on the single-speaker path the utterances handed on are
\* chunks cut from the list of all fetched sentences, in order: every
\* sentence is in exactly one chunk, a chunk is the sentences of a run of
\* consecutive sentences joined by single spaces, a chunk is closed only
\* when its length plus the length of the next sentence exceeds the
\* threshold, and a chunk starts where its first sentence starts and ends
\* where its last one ends.
C24_GreedyGroupingAsClaimed ==
    (pc = "enrich" /\ Segmented /\ SinglePath) =>
        /\ Len(utterances) >= 1
        /\ \E last \in CutsInto(Len(utterances)) :
              /\ \A k \in 1 .. Len(utterances) :
                    /\ utterances[k].text =
                          Join(TextsOf(SubSeq(sentences, FirstOf(last, k), last[k])), Space)
                    /\ utterances[k].start = sentences[FirstOf(last, k)].start
                    /\ utterances[k].end = sentences[last[k]].end
              /\ \A k \in 1 .. Len(utterances) - 1 :
                    StrLen(utterances[k].text) + StrLen(sentences[last[k] + 1].text)
                        > CHUNK_THRESHOLD

\* C24 (amended): the fetched sentences are cut, in order, into runs of
\* consecutive sentences, every sentence in exactly one run; a run is closed
\* only when the length of its text plus the length of the next sentence
\* exceeds the threshold; every run with text is one chunk, in order, whose
\* text is the texts of the run joined by single spaces without the
\* text-less sentences at the head of the run, whose start is the start of
\* the first sentence of the run and whose end is the end of its last; only
\* the last run can be without text, and it makes no chunk.
C24_GreedyGroupingAmended ==
    (pc = "enrich" /\ Segmented /\ SinglePath) =>
        LET n == Len(utterances)
            texts == TextsOf(sentences)
        IN  \E m \in {n, n + 1} :
              /\ m >= 1
              /\ \E last \in CutsInto(m) :
                    /\ \A k \in 1 .. n :
                          /\ utterances[k].text = Accumulated(texts, FirstOf(last, k), last[k])
                          /\ utterances[k].text # <<>>
                          /\ utterances[k].start = sentences[FirstOf(last, k)].start
                          /\ utterances[k].end = sentences[last[k]].end
                    /\ \A k \in 1 .. m - 1 :
                          StrLen(Accumulated(texts, FirstOf(last, k), last[k]))
                              + StrLen(sentences[last[k] + 1].text) > CHUNK_THRESHOLD
                    /\ m = n + 1 => Accumulated(texts, FirstOf(last, m), last[m]) = <<>>

\* Two fetched sentences that do not fit together have become two chunks of
\* a single-speaker transcript.
C24_Witness ==
    /\ pc = "enrich" /\ Segmented /\ SinglePath
    /\ Len(sentences) = 2
    /\ Len(utterances) = 2
    /\ StrLen(sentences[1].text) = Half

\* A text-less sentence at the head of the list went into the chunk of the
\* sentence after it: the chunk has the text of the second sentence alone
\* and the start of the first.
C24_WitnessTextless ==
    /\ pc = "enrich" /\ Segmented /\ SinglePath
    /\ Len(sentences) = 2
    /\ sentences[1].text = <<>> /\ sentences[1].start = 0
    /\ sentences[2].text # <<>> /\ sentences[2].start = 1
    /\ Len(utterances) = 1
    /\ utterances[1].text = sentences[2].text
    /\ utterances[1].start = 0

-----------------------------------------------------------------------------
(* Specification of breakOnePassage over the fragment lists of the classifier *)

\* Length of the fragment lists.
MaxFragments == 3

\* Fragments the schema admits (an array of strings): the empty string, two
\* short ones that together reach the minimum, and one of the minimum size.
FragmentTexts ==
    { Str("a", 0), Str("a", 100), Str("b", MIN_PARAGRAPH - 101), Str("c", MIN_PARAGRAPH) }
FragmentLists == UNION { [1 .. n -> FragmentTexts] : n \in 0 .. MaxFragments }

\* The classifier answers with the fragments and breakOnePassage merges them.
MergePassage ==
    /\ pc = "reflow"
    /\ reflowed' =
          Some([merged |-> IF Len(got[1].texts) = 0 THEN <<>>
                           ELSE mergeLoop(got[1].texts, 1, <<>>, <<>>),
                text |-> breakOnePassage(got[1].texts)])
    /\ pc' = "merged"
    /\ UNCHANGED <<segVars, failedAt, idVars, envVars, runVars, cleanupCalls, flowVars, procs,
                   runs>>

InitMerge ==
    /\ pc = "reflow"
    /\ inputUtterances = <<>>
    /\ utterances = <<>>
    /\ origin = <<>>
    /\ sentences = <<>>
    /\ fetchCalls = 0
    /\ failedAt = ""
    /\ request = NoValue
    /\ identification = NoValue
    /\ thrown = ""
    /\ argv = [isUrl |-> FALSE, force |-> FALSE, noDiarize |-> FALSE,
               audioFile |-> "call.wav", output |-> <<>>]
    /\ openai = TRUE
    /\ store = {}
    /\ files = {}
    /\ cleanup = "null"
    /\ cleanupCalls = 0
    /\ transcriptId = ""
    /\ enriched = NoValue
    /\ written = NoValue
    /\ saved = NoValue
    /\ issued = {1}
    /\ got \in { << [kind |-> "parsed", texts |-> l] >> : l \in FragmentLists }
    /\ completion = <<1>>
    /\ applied = 0
    /\ procs = << >>
    /\ runs = 0
    /\ reflowed = NoValue

NextMerge == MergePassage

SpecMerge == InitMerge /\ [][NextMerge]_vars

\* Ways to cut n fragments into m runs of consecutive fragments.
FragmentCuts(n, m) ==
    { last \in [1 .. m -> 1 .. n] :
        /\ last[m] = n
        /\ \A k \in 1 .. m - 1 : last[k] < last[k + 1] }

\* Fragments a..b joined by single spaces.
Joined(texts, a, b) == Join(SubSeq(texts, a, b), Space)

\* Fragments a..b make a paragraph that reached the minimum size with its
\* last fragment and not before: each fragment that left the paragraph short
\* was joined to the following one.
JustComplete(texts, a, b) ==
    /\ StrLen(Joined(texts, a, b)) >= MIN_PARAGRAPH
    /\ \A c \in a .. b - 1 : StrLen(Joined(texts, a, c)) < MIN_PARAGRAPH

\* The paragraphs are the fragments, merged left to right: every paragraph
\* is a run of consecutive fragments joined by single spaces; every
\* paragraph but the last was closed when it reached the minimum size; the
\* last is such a paragraph, alone or with a short remainder joined to it,
\* or is the only paragraph and short; every paragraph has the minimum size
\* unless it is the only one; the paragraphs joined by single spaces are the
\* fragments joined by single spaces.
MergedLeftToRight(texts, merged) ==
    /\ Len(merged) >= 1 \/ Join(texts, Space) = <<>>
    /\ Len(merged) = 0 \/ \E last \in FragmentCuts(Len(texts), Len(merged)) :
          /\ \A k \in 1 .. Len(merged) :
                merged[k] = Joined(texts, FirstOf(last, k), last[k])
          /\ \A k \in 1 .. Len(merged) - 1 : JustComplete(texts, FirstOf(last, k), last[k])
          /\ LET a == FirstOf(last, Len(merged))
                 n == Len(texts)
             IN  \/ JustComplete(texts, a, n)
                 \/ \E c \in a .. n - 1 :
                       /\ JustComplete(texts, a, c)
                       /\ StrLen(Joined(texts, c + 1, n)) < MIN_PARAGRAPH
                 \/ Len(merged) = 1 /\ StrLen(Joined(texts, 1, n)) < MIN_PARAGRAPH
    /\ Len(merged) > 1 => \A k \in 1 .. Len(merged) : StrLen(merged[k]) >= MIN_PARAGRAPH
    /\ Join(merged, Space) = Join(texts, Space)

\* C25 (as claimed): for every non-empty fragment list the merged paragraphs
\* are the fragments merged left to right, and the text is the paragraphs
\* joined by blank lines.
C25_MergeAsClaimed ==
    (pc = "merged" /\ Len(got[1].texts) > 0) =>
        /\ MergedLeftToRight(got[1].texts, reflowed[1].merged)
        /\ reflowed[1].text = Some(Join(reflowed[1].merged, ParagraphBreak))

\* Fragments a..b make a paragraph that reached the minimum size with its
\* last fragment and not before, the empty fragments at its head left out.
JustCompleteKept(texts, a, b) ==
    /\ StrLen(Accumulated(texts, a, b)) >= MIN_PARAGRAPH
    /\ \A c \in a .. b - 1 : StrLen(Accumulated(texts, a, c)) < MIN_PARAGRAPH

\* The fragments but the empty ones that begin a paragraph or the remainder
\* (heads: the indices at which a paragraph or the remainder begins).
KeptFragments(texts, heads) ==
    LET dropped == { i \in 1 .. Len(texts) :
                        \E h \in heads : h <= i /\ \A j \in h .. i : texts[j] = <<>> }
        sel == SelectSeq([i \in 1 .. Len(texts) |-> <<i, texts[i]>>],
                         LAMBDA p : p[1] \notin dropped)
    IN  [k \in 1 .. Len(sel) |-> sel[k][2]]

\* The paragraphs are the fragments, merged left to right. A fragment that
\* is the empty string and comes when no paragraph is under construction
\* (first, or right after a paragraph was closed) is left out; every other
\* fragment, an empty one included, is joined to the paragraph under
\* construction after a single space. Every paragraph but the last was
\* closed when it reached the minimum size; the last is such a paragraph,
\* alone or with the short remainder joined to it after a single space, or
\* is the only paragraph and short; every paragraph has the minimum size
\* unless it is the only one; the paragraphs joined by single spaces are the
\* fragments that were not left out joined by single spaces; there is no
\* paragraph exactly when every fragment is the empty string.
MergedKeeping(texts, merged) ==
    LET n == Len(texts)
        m == Len(merged)
    IN  /\ m = 0 <=> Accumulated(texts, 1, n) = <<>>
        /\ m = 0 \/ \E last \in FragmentCuts(n, m) :
              LET a == FirstOf(last, m)
                  heads == { FirstOf(last, k) : k \in 1 .. m }
              IN  /\ \A k \in 1 .. m - 1 :
                        /\ merged[k] = Accumulated(texts, FirstOf(last, k), last[k])
                        /\ JustCompleteKept(texts, FirstOf(last, k), last[k])
                  /\ \/ \E c \in a .. n :
                           /\ JustCompleteKept(texts, a, c)
                           /\ StrLen(Accumulated(texts, c + 1, n)) < MIN_PARAGRAPH
                           /\ merged[m] =
                                 IF Accumulated(texts, c + 1, n) = <<>>
                                 THEN Accumulated(texts, a, c)
                                 ELSE Concat(Concat(Accumulated(texts, a, c), Space),
                                             Accumulated(texts, c + 1, n))
                           /\ Join(merged, Space) =
                                 Join(KeptFragments(texts, heads \cup {c + 1}), Space)
                     \/ /\ m = 1
                        /\ StrLen(Accumulated(texts, 1, n)) < MIN_PARAGRAPH
                        /\ merged[1] = Accumulated(texts, 1, n)
                        /\ Join(merged, Space) = Join(KeptFragments(texts, heads), Space)
        /\ m > 1 => \A k \in 1 .. m : StrLen(merged[k]) >= MIN_PARAGRAPH

\* C25 (amended): for every non-empty fragment list, empty fragments
\* included, the merged paragraphs are the fragments merged left to right
\* with the empty fragments that begin a paragraph left out, and the text is
\* the paragraphs joined by blank lines.
C25_MergeAmended ==
    (pc = "merged" /\ Len(got[1].texts) > 0) =>
        /\ MergedKeeping(got[1].texts, reflowed[1].merged)
        /\ reflowed[1].text = Some(Join(reflowed[1].merged, ParagraphBreak))

\* An empty fragment between two short ones was joined like any other: the
\* paragraph has two spaces between the two texts and reaches the minimum
\* size with them.
C25_Witness ==
    /\ pc = "merged"
    /\ got[1].texts = << Str("a", 100), Str("a", 0), Str("b", MIN_PARAGRAPH - 101) >>
    /\ reflowed[1].merged =
          << Concat(Concat(Str("a", 100), Str(" ", 2)), Str("b", MIN_PARAGRAPH - 101)) >>

Min(S) == CHOOSE x \in S : \A y \in S : x <= y
Max(S) == CHOOSE x \in S : \A y \in S : x >= y

\* C26: on the multi-speaker path the chunks that replace an oversized
\* utterance with a fetched sentence within its span keep its speaker, the
\* first of them starts where the utterance starts and the last of them ends
\* where the utterance ends.
C26_ChunksKeepSpeakerAndSpan ==
    MultiSegmented =>
        \A i \in 1 .. Len(inputUtterances) :
            (Oversized(inputUtterances[i]) /\ HasSentenceWithin(inputUtterances[i])) =>
                /\ IndicesFrom(i) # {}
                /\ \A k \in IndicesFrom(i) : utterances[k].speaker = inputUtterances[i].speaker
                /\ utterances[Min(IndicesFrom(i))].start = inputUtterances[i].start
                /\ utterances[Max(IndicesFrom(i))].end = inputUtterances[i].end

-----------------------------------------------------------------------------
(* Further properties of the run *)

\* The document the run wrote is in the output directory.
DocumentExists == written # NoValue /\ existsSync(files, written[1])

\* C27: the document is written only after segmentation and enrichment, the
\* record is upserted only after the document is written, and when the run
\* has ended, done or failed, its document exists if and only if it has
\* stored a record under its transcript id.
C27_PersistAllOrNothing ==
    /\ written # NoValue => (PastSegment /\ enriched # NoValue)
    /\ saved # NoValue => (written # NoValue /\ saved[1].id = transcriptId)
    /\ pc \in {"done", "failed"} =>
          (DocumentExists <=> (saved # NoValue /\ saved[1] \in store))

\* The sentence list in hand was empty and the regrouping has been made.
FetchedNothing ==
    fetchCalls = 1 /\ pc # "regroup" /\ failedAt # "sentences" /\ sentences = <<>>

\* C28: on the single-speaker path, when the sentence fetch resolves with an
\* empty list, the run does not fail in segmentation and goes on with a
\* non-empty utterance list whose texts are those of the transcript.
C28_EmptySentencesHarmless ==
    (FetchedNothing /\ SinglePath) =>
        /\ pc # "failed"
        /\ utterances # <<>>
        /\ Join(TextsOf(utterances), Space) = Join(TextsOf(inputUtterances), Space)

\* C29: when the run has saved its output, the speakers stored in the record
\* and in the metadata of the document are the distinct speaker names on the
\* utterances of the document: none missing, none extra, none twice.
C29_SpeakersMatchDocument ==
    saved # NoValue =>
        LET names == saved[1].speakers
            utts == saved[1].content.utterances
        IN  /\ saved[1].content.speakers = names
            /\ { names[i] : i \in 1 .. Len(names) } = { utts[k].speaker : k \in 1 .. Len(utts) }
            /\ \A i, j \in 1 .. Len(names) : names[i] = names[j] => i = j

-----------------------------------------------------------------------------
(* Properties of successive invocations *)

SeriesUrls == {Url, OtherUrl}

\* Some stored row has u as its source.
Referenced(u) == \E r \in store : r.source_url = u

\* A run on u, without the override, that leaves the input resolution while
\* a row references u, aborts as a duplicate: the table is read once, when
\* the run starts, and rows stored later by other processes are not seen.
LaterRunAborts(u) ==
    (pc = "resolve" /\ pc' # "resolve" /\ argv.audioFile = u /\ ~argv.force /\ Referenced(u))
        => pc' = "duplicate"

\* The step stores a record of another source under the id of a row of u,
\* be it the record of the run or that of another process.
IdOfRowReused(u) ==
    \E r \in store, new \in store' \ store :
        r.source_url = u /\ new.id = r.id /\ new.source_url # u

\* C30 (as claimed): once a row references u, a row references u ever after,
\* whatever runs follow and whatever ids they are given, and so every later
\* run on u without the override aborts as a duplicate.
C30_DedupStableAsClaimed ==
    [][ \A u \in SeriesUrls :
           /\ LaterRunAborts(u)
           /\ Referenced(u) => Referenced(u)' ]_vars

\* C30 (amended): the same, as long as no run on another source is given the
\* id under which a row of u is stored.
C30_DedupStableAmended ==
    [][ \A u \in SeriesUrls :
           /\ LaterRunAborts(u)
           /\ (Referenced(u) /\ ~IdOfRowReused(u)) => Referenced(u)' ]_vars

\* A third run, on the URL and without the override, has aborted while the
\* store holds the row of the URL and the row of a run on another source.
C30_Witness ==
    /\ pc = "duplicate" /\ runs = 2
    /\ argv.audioFile = Url
    /\ Referenced(Url)
    /\ Cardinality(store) = 2
    /\ Cardinality(files) = 2

=============================================================================
